---- MODULE Spec2Model ----
(***************************************************************************)
(* A model of the lazy chain cursors of saby-types (Types/_chain):         *)
(* UniquelyEnumerator, ZippedEnumerator, SortedEnumerator,                 *)
(* FlattenedEnumerator and MappedEnumerator, of the Objectwise cursor over *)
(* an object's own properties, and of factory.  Every component has its    *)
(* own variables, its own initial condition and its own specification; the *)
(* variables of the components a specification does not drive stay at      *)
(* their idle values.                                                      *)
(***************************************************************************)
EXTENDS Integers, Sequences, FiniteSets, TLC

VARIABLES
    \* UniquelyEnumerator
    uPrevious,        \* the (index, item) pairs the previous link yields
    uIdExtractor,     \* this.idExtractor: "none" or the name of an extractor
    uEnumerator,      \* this.enumerator: position of the upstream cursor
    uObjectsHash,     \* this.objectsHash: array of object keys seen
    uKeysHash,        \* this.keysHash: own property names of the hash object
    uOut,             \* (getCurrentIndex(), getCurrent()) after each true moveNext()
    uLast,            \* what the last call was and what it returned
    uReads,           \* moveNext() calls the last call made on the upstream cursor
    uRestarted,       \* reset() has been called after an element was yielded
    uObtained,        \* cursors the last call requested from the previous link
    \* ZippedEnumerator
    zPrevious,        \* the (index, item) pairs the previous (primary) link yields
    zItems,           \* this.items: the secondary collections, in argument order
    zPhase,           \* "idle", "new" (before the constructor), "ready" or "failed"
    zEnumerator,      \* this.enumerator: null or the primary cursor
    zIndex,           \* this.index
    zCurrent,         \* this.current
    zItemsEnumerators,\* this.itemsEnumerators: per argument, null or a cursor
    zOut,             \* (getCurrentIndex(), getCurrent()) after each true moveNext()
    zLast,            \* the last call, how it ended and what it raised
    zReads,           \* moveNext() calls and element reads the last call made on the
                      \* primary and on the secondaries
    zRestarted,       \* reset() has been called after an element was yielded
    zObtained,        \* cursors the last call requested from the previous link
    \* SortedEnumerator
    sPrevious,        \* the (index, item) pairs the previous link yields
    sShouldSaveIndices, \* this.previous.shouldSaveIndices
    sCompareFunction, \* this.compareFunction: the name of a comparator
    sItems,           \* this._items: null or the cached sorted [index, item] pairs
    sIndex,           \* the cursor's position in the items, -1 before the first
    sOut,             \* (getCurrentIndex(), getCurrent()) after each true moveNext()
    sLast,            \* what the last call was and what it returned
    sPulls,           \* how often the previous link has been traversed for this cursor
    sSorts,           \* how often the sort has been run for this cursor
    sFirst,           \* null or the sequence the first request for the items returned
    sRestarted,       \* reset() has been called after an element was yielded
    \* FlattenedEnumerator
    fPrevious,        \* the (index, item) pairs the previous link yields; items may nest
    fMover,           \* this.mover: null or the mover's stack of cursors
    fIndex,           \* this.index
    fOut,             \* (getCurrentIndex(), getCurrent()) after each true moveNext()
    fLast,            \* what the last call was and what it returned
    fReads,           \* moveNext() calls the last call made on the mover
    fRestarted,       \* reset() has been called after an element was yielded
    fObtained,        \* cursors the last call requested from the previous link
    \* MappedEnumerator
    mPrevious,        \* the (index, item) pairs the previous link yields
    mCallback,        \* this.callback: the name of a map function
    mEnumerator,      \* this.enumerator: position of the upstream cursor
    mCurrent,         \* this.current
    mCalls,           \* the arguments of every call of the callback since the cursor
                      \* was created or reset, in order
    mReads,           \* moveNext() calls the last call made on the upstream cursor
    mGot,             \* what the last getCurrent() returned
    mRestarted,       \* reset() has been called after an element was yielded
    mOut,             \* (getCurrentIndex(), getCurrent()) after each true moveNext()
    mLast,            \* what the last moveNext() or reset() was and what it returned
    mObtained,        \* cursors the last call requested from the previous link
    \* Objectwise
    oArgument,        \* the argument of the constructor
    oPhase,           \* "idle", "new" (before the constructor), "ready" or "failed"
    oItems,           \* this._items
    oKeys,            \* this._keys
    oIndex,           \* this._index
    oFilter,          \* this._filter: "none" (null) or the name of a filter
    oFiltered,        \* the filter has not changed since the traversal began
    oRestarted,       \* reset() has been called after an element was yielded
    oOut,             \* (getCurrentIndex(), getCurrent()) after each true moveNext()
    oLast,            \* the last call, what it returned and what it raised
    \* factory
    facSource,        \* the argument of the last call
    facResult,        \* the link the last call returned, null if it returned none
    facError,         \* what the last call raised
    facCreated,       \* how many links the calls have created
    facLast,          \* whether the last call was given a link returned by factory,
                      \* and how many links there were before it
    \* a second cursor over the same link
    tKind,            \* "none" or the class of the two cursors
    tThis,            \* the fields of the second cursor
    tOut,             \* (getCurrentIndex(), getCurrent()) after each true moveNext() of the second
    tLast,            \* the last call on the second cursor and how it ended
    tMixed,           \* the second cursor has moved on while the first stood between two elements
    \* SortedEnumerator.defaultCompare
    dItems,           \* the wrapped items of one sort pass
    dLast,            \* the two items last compared and the comparator's answers, both ways
    \* ReactiveObject
    rStorage,         \* the storage of the tracked properties: key to value
    rVersion,         \* the version counter of the instance
    rNestedVersions,  \* this._nestedVersions: key to the version last seen there
    rLast,            \* the last call, its arguments and the version before it
    rSeen,            \* the storage as it was at construction or at the last getVersion()
    \* logger.stack
    lHasStack,        \* 'stack' in error: the engine gives a new Error its stack
    lStackPoints,     \* the own property names of stackPoints
    lReported,        \* the (message, call stack) pairs reported, in the order of the calls
    lLogged,          \* how often each pair has been passed to the ILogger
    lLast,            \* the last call, the pair it reported and how it ended
    \* isEqual
    eObj1,            \* the first argument of isEqual
    eObj2,            \* the second argument of isEqual
    eOut,             \* what isEqual(obj1, obj2) gave
    eBack,            \* what isEqual(obj2, obj1) gave
    eLast,            \* the last step
    \* OptionsToPropertyMixin and SerializableMixin
    isProtoSupported, \* whether {}.__proto__ is an object where the module runs
    instanceCounter,  \* the module's counter of numbered instances
    entProto,         \* the prototype of the class in use
    entOptions,       \* what the callers of this run pass to the constructor
    entInstances,     \* the instances, in the order of their creation
    entScopes,        \* for each instance, the object its constructor was given, as its caller has it now
    entGiven,         \* for each instance, that object as it was when the constructor ran
    entLast,          \* the last call, its arguments and its result
    \* ManyToManyMixin
    mtmMediator,      \* for each entity, the mediator it holds
    mtmRelations,     \* for each mediator, its relationships as pairs of parent and child
    mtmAdded,         \* the _addChild() calls so far
    mtmLast           \* the last call, its arguments and what it did

uniqVars == <<uPrevious, uIdExtractor, uEnumerator, uObjectsHash, uKeysHash, uOut, uLast,
              uReads, uRestarted, uObtained>>

zipVars == <<zPrevious, zItems, zPhase, zEnumerator, zIndex, zCurrent, zItemsEnumerators,
             zOut, zLast, zReads, zRestarted, zObtained>>

sortVars == <<sPrevious, sShouldSaveIndices, sCompareFunction, sItems, sIndex, sOut, sLast,
              sPulls, sSorts, sFirst, sRestarted>>

flatVars == <<fPrevious, fMover, fIndex, fOut, fLast, fReads, fRestarted, fObtained>>

mapVars == <<mPrevious, mCallback, mEnumerator, mCurrent, mCalls, mReads, mGot, mRestarted,
             mOut, mLast, mObtained>>

objVars == <<oArgument, oPhase, oItems, oKeys, oIndex, oFilter, oFiltered, oRestarted,
             oOut, oLast>>

facVars == <<facSource, facResult, facError, facCreated, facLast>>

twinVars == <<tKind, tThis, tOut, tLast, tMixed>>

compareVars == <<dItems, dLast>>

reactVars == <<rStorage, rVersion, rNestedVersions, rLast, rSeen>>

loggerVars == <<lHasStack, lStackPoints, lReported, lLogged, lLast>>

equalVars == <<eObj1, eObj2, eOut, eBack, eLast>>

entVars == <<isProtoSupported, instanceCounter, entProto, entOptions, entInstances, entScopes, entGiven, entLast>>

mtmVars == <<mtmMediator, mtmRelations, mtmAdded, mtmLast>>

vars == <<uniqVars, zipVars, sortVars, flatVars, mapVars, objVars, facVars, twinVars, compareVars, reactVars, loggerVars, equalVars, entVars, mtmVars>>

\* what each component's operations leave alone: the other components
uniqOthers == <<zipVars, sortVars, flatVars, mapVars, objVars, facVars, twinVars, compareVars, reactVars, loggerVars, equalVars, entVars, mtmVars>>
zipOthers == <<uniqVars, sortVars, flatVars, mapVars, objVars, facVars, twinVars, compareVars, reactVars, loggerVars, equalVars, entVars, mtmVars>>
sortOthers == <<uniqVars, zipVars, flatVars, mapVars, objVars, facVars, twinVars, compareVars, reactVars, loggerVars, equalVars, entVars, mtmVars>>
flatOthers == <<uniqVars, zipVars, sortVars, mapVars, objVars, facVars, twinVars, compareVars, reactVars, loggerVars, equalVars, entVars, mtmVars>>
mapOthers == <<uniqVars, zipVars, sortVars, flatVars, objVars, facVars, twinVars, compareVars, reactVars, loggerVars, equalVars, entVars, mtmVars>>
objOthers == <<uniqVars, zipVars, sortVars, flatVars, mapVars, facVars, twinVars, compareVars, reactVars, loggerVars, equalVars, entVars, mtmVars>>
facOthers == <<uniqVars, zipVars, sortVars, flatVars, mapVars, objVars, twinVars, compareVars, reactVars, loggerVars, equalVars, entVars, mtmVars>>
twinOthers == <<uniqVars, zipVars, sortVars, flatVars, mapVars, objVars, facVars, compareVars, reactVars, loggerVars, equalVars, entVars, mtmVars>>
compareOthers == <<uniqVars, zipVars, sortVars, flatVars, mapVars, objVars, facVars, twinVars, reactVars, loggerVars, equalVars, entVars, mtmVars>>
reactOthers == <<uniqVars, zipVars, sortVars, flatVars, mapVars, objVars, facVars, twinVars, compareVars, loggerVars, equalVars, entVars, mtmVars>>
loggerOthers == <<uniqVars, zipVars, sortVars, flatVars, mapVars, objVars, facVars, twinVars, compareVars, reactVars, equalVars, entVars, mtmVars>>
equalOthers == <<uniqVars, zipVars, sortVars, flatVars, mapVars, objVars, facVars, twinVars, compareVars, reactVars, loggerVars, entVars, mtmVars>>
entOthers == <<uniqVars, zipVars, sortVars, flatVars, mapVars, objVars, facVars, twinVars, compareVars, reactVars, loggerVars, equalVars, mtmVars>>
mtmOthers == <<uniqVars, zipVars, sortVars, flatVars, mapVars, objVars, facVars, twinVars, compareVars, reactVars, loggerVars, equalVars, entVars>>

----------------------------------------------------------------------------
(* Bounds of the model.                                                    *)

\* longest upstream sequence of a Uniquely traversal
MaxLen == 3

\* longest primary sequence of a Zipped traversal
MaxPrimary == 3

\* longest secondary collection given to zip
MaxSecondaryLen == 4

\* most secondary collections given to zip
MaxSecondaries == 2

\* longest upstream sequence of a Sorted traversal
MaxSortLen == 3

\* largest sort key of an element of a Sorted traversal
MaxSortKey == 2

\* most elements, atoms and containers at every depth together, of a Flattened upstream
MaxFlatNodes == 6

\* longest upstream sequence of a Mapped traversal
MaxMapLen == 3

\* most own properties of an object given to Objectwise
MaxProps == 3

\* most links the calls of factory create
MaxLinks == 4

\* most elements of a Flattened upstream where the cursors are restarted side by side
MaxRestartNodes == 4

\* most secondaries of a zip, and longest sorted link, among the restarted cursors
MaxRestartSecondaries == 1

MaxRestartSortLen == 2

\* longest upstream sequence, most secondaries and most elements of a Flattened
\* upstream where two cursors traverse the same link
MaxTwinLen == 2
MaxTwinSecondaries == 1
MaxTwinNodes == 3

\* most items of a sort with the default comparator
MaxCompareLen == 3

\* highest version of a nested versionable value, and the version up to which a
\* ReactiveObject is assigned to
MaxNestedVersion == 1
MaxVersion == 3

\* most calls of logger.stack in one run
MaxReports == 3

\* longest array and most properties of an object given to isEqual
MaxEqualLen == 2

\* most slots and properties, at all depths, of a value given to isEqual
MaxEqualSize == 2

\* deepest nesting of a value given to isEqual
MaxEqualDepth == 2

----------------------------------------------------------------------------
(* JavaScript values.  A value is a record tagged with its type; an object *)
(* carries its reference (its identity) beside its contents.               *)

Num(n) == [t |-> "number", n |-> n]
Str(s) == [t |-> "string", s |-> s]
Undefined == [t |-> "undefined"]
Null == [t |-> "null"]
Obj(ref, id) == [t |-> "object", ref |-> ref, id |-> id]

\* objA and objB are two instances with equal contents, objC differs
ObjA == Obj(1, Num(1))
ObjB == Obj(2, Num(1))
ObjC == Obj(3, Str("1"))

\* `v instanceof Object`
InstanceOfObject(v) == v.t \in {"object", "array", "enumerable", "function", "link"}

\* a === b: primitives by type and value, objects by reference
StrictEquals(a, b) ==
    IF InstanceOfObject(a) /\ InstanceOfObject(b)
    THEN a.ref = b.ref
    ELSE a = b

Digit(d) ==
    CASE d = 0 -> "0" [] d = 1 -> "1" [] d = 2 -> "2" [] d = 3 -> "3" [] d = 4 -> "4"
      [] d = 5 -> "5" [] d = 6 -> "6" [] d = 7 -> "7" [] d = 8 -> "8" [] d = 9 -> "9"

RECURSIVE NumberToString(_)
\* Number::toString for the non-negative integers of the model
NumberToString(n) ==
    IF n < 10 THEN Digit(n) ELSE NumberToString(n \div 10) \o Digit(n % 10)

\* ToPropertyKey: the string under which `hash[v]` and `v in hash` address v
ToPropertyKey(v) ==
    CASE v.t = "number" -> NumberToString(v.n)
      [] v.t = "string" -> v.s
      [] v.t = "undefined" -> "undefined"
      [] v.t = "null" -> "null"
      [] v.t = "boolean" -> IF v.b THEN "true" ELSE "false"

\* the property names every `{}` inherits from Object.prototype
ObjectPrototypeKeys ==
    {"constructor", "toString", "toLocaleString", "valueOf", "hasOwnProperty",
     "isPrototypeOf", "propertyIsEnumerable", "__proto__"}

\* `key in hash` for a hash created as `{}` with own property names `own`
HasProperty(own, key) == ToPropertyKey(key) \in own \cup ObjectPrototypeKeys

----------------------------------------------------------------------------
(* The cursor of a previous link: it walks a finite sequence of            *)
(* (index, item) pairs; position 0 is the state before the first element.  *)

Pair(index, item) == [index |-> index, item |-> item]

Cursor_moveNext(items, pos) ==
    IF pos < Len(items) THEN [pos |-> pos + 1, ret |-> TRUE]
    ELSE [pos |-> pos, ret |-> FALSE]

Cursor_getCurrent(items, pos) == IF pos = 0 THEN Undefined ELSE items[pos].item

Cursor_getCurrentIndex(items, pos) == IF pos = 0 THEN Num(-1) ELSE items[pos].index

\* an array source: item k (from 0) has index k
Arraywise(values) == [k \in 1..Len(values) |-> Pair(Num(k - 1), values[k])]

RECURSIVE SeqsUpTo(_, _)
\* the sequences over S of length at most n
SeqsUpTo(S, n) ==
    IF n = 0 THEN {<<>>}
    ELSE LET shorter == SeqsUpTo(S, n - 1)
         IN shorter \cup {Append(s, x) : s \in {q \in shorter : Len(q) = n - 1}, x \in S}

----------------------------------------------------------------------------
(* UniquelyEnumerator                                                      *)

UniqValues == {Num(1), Num(2), Str("1"), Str("toString"), ObjA, ObjB, ObjC}

IdExtractors == {"none", "id", "index", "self"}

\* this.idExtractor(item, index), for the extractors of the model
idExtractor(name, item, index) ==
    CASE name = "id" -> IF item.t = "object" THEN item.id ELSE Undefined
      [] name = "index" -> index
      [] name = "self" -> item

\* the key moveNext() tests: lines 42-45
UniquelyKey(name, pair) ==
    IF name = "none" THEN pair.item ELSE idExtractor(name, pair.item, pair.index)

\* this.objectsHash.indexOf(current) > -1, were the array searched by contents
SeenObjectByContents(objectsHash, current) ==
    \E i \in 1..Len(objectsHash) : objectsHash[i].id = current.id

\* this.objectsHash.indexOf(current) > -1
SeenObject(objectsHash, current) ==
    \E i \in 1..Len(objectsHash) : StrictEquals(objectsHash[i], current)

RECURSIVE UniquelyEnumerator_moveNext(_, _, _)
\* moveNext(): the result and the fields it leaves behind
UniquelyEnumerator_moveNext(enumerator, objectsHash, keysHash) ==
    LET up == Cursor_moveNext(uPrevious, enumerator)
        hasNext == up.ret
        current == UniquelyKey(uIdExtractor, uPrevious[up.pos])
        same == [enumerator |-> up.pos, objectsHash |-> objectsHash,
                 keysHash |-> keysHash, ret |-> hasNext]
    IN  IF ~hasNext THEN same
        ELSE IF InstanceOfObject(current)
        THEN IF SeenObject(objectsHash, current)
             THEN UniquelyEnumerator_moveNext(up.pos, objectsHash, keysHash)
             ELSE [same EXCEPT !.objectsHash = Append(objectsHash, current)]
        ELSE IF HasProperty(keysHash, current)
             THEN UniquelyEnumerator_moveNext(up.pos, objectsHash, keysHash)
             ELSE [same EXCEPT !.keysHash = keysHash \cup {ToPropertyKey(current)}]

UniquelyEnumerator_getCurrent(enumerator) == Cursor_getCurrent(uPrevious, enumerator)

UniquelyEnumerator_getCurrentIndex(enumerator) == Cursor_getCurrentIndex(uPrevious, enumerator)

\* reset(), were the stores kept
UniquelyEnumerator_reset_keepingStores(objectsHash, keysHash) ==
    [enumerator |-> 0, keysHash |-> keysHash, objectsHash |-> objectsHash, obtained |-> 1]

\* reset(): a new upstream cursor, this.previous.getEnumerator(), and two empty
\* stores (lines 62-66)
UniquelyEnumerator_reset(objectsHash, keysHash) ==
    [enumerator |-> 0, keysHash |-> {}, objectsHash |-> <<>>, obtained |-> 1]

\* constructor: stores the link and the extractor, then reset(); the link yields
\* at most n elements
UniqInitUpTo(n) ==
    /\ uPrevious \in {Arraywise(s) : s \in SeqsUpTo(UniqValues, n)}
    /\ uIdExtractor \in IdExtractors
    /\ uEnumerator = 0
    /\ uObjectsHash = <<>>
    /\ uKeysHash = {}
    /\ uOut = <<>>
    /\ uLast = [op |-> "new", ret |-> FALSE]
    /\ uReads = 0
    /\ uRestarted = FALSE
    /\ uObtained = UniquelyEnumerator_reset(<<>>, {}).obtained

UniqInit == UniqInitUpTo(MaxLen)

UniqMoveNext ==
    LET r == UniquelyEnumerator_moveNext(uEnumerator, uObjectsHash, uKeysHash)
    IN  /\ uLast.op # "idle"
        /\ uEnumerator' = r.enumerator
        /\ uObjectsHash' = r.objectsHash
        /\ uKeysHash' = r.keysHash
        /\ uOut' = IF r.ret
                   THEN Append(uOut, Pair(UniquelyEnumerator_getCurrentIndex(r.enumerator),
                                          UniquelyEnumerator_getCurrent(r.enumerator)))
                   ELSE uOut
        /\ uLast' = [op |-> "moveNext", ret |-> r.ret]
        /\ uReads' = (r.enumerator - uEnumerator) + (IF r.ret THEN 0 ELSE 1)
        /\ uObtained' = 0
        /\ UNCHANGED <<uPrevious, uIdExtractor, uRestarted, uniqOthers>>

UniqReset ==
    LET r == UniquelyEnumerator_reset(uObjectsHash, uKeysHash)
    IN  /\ uLast.op # "idle"
        /\ uEnumerator' = r.enumerator
        /\ uKeysHash' = r.keysHash
        /\ uObjectsHash' = r.objectsHash
        /\ uOut' = <<>>
        /\ uLast' = [op |-> "reset", ret |-> FALSE]
        /\ uReads' = 0
        /\ uRestarted' = (uRestarted \/ Len(uOut) > 0)
        /\ uObtained' = r.obtained
        /\ UNCHANGED <<uPrevious, uIdExtractor, uniqOthers>>

UniqNext == UniqMoveNext \/ UniqReset

UniqIdle ==
    /\ uPrevious = <<>>
    /\ uIdExtractor = "none"
    /\ uEnumerator = 0
    /\ uObjectsHash = <<>>
    /\ uKeysHash = {}
    /\ uOut = <<>>
    /\ uLast = [op |-> "idle", ret |-> FALSE]
    /\ uReads = 0
    /\ uRestarted = FALSE
    /\ uObtained = 0

----------------------------------------------------------------------------
(* ZippedEnumerator                                                        *)

\* a cursor is held as its position; a field that holds none is null
CursorAt(pos) == [t |-> "cursor", pos |-> pos]

\* a JavaScript array and an object marked '[Types/_collection/IEnumerable]'
Arr(items) == [t |-> "array", items |-> items]
Enumerable(items) == [t |-> "enumerable", items |-> items]

\* the primary link of a zip: n items, indexed by position or by key
ZipPrimary(n, keyed) ==
    [k \in 1..n |-> Pair(IF keyed THEN Str("k" \o NumberToString(k - 1)) ELSE Num(k - 1),
                         Num(100 + k - 1))]

\* the contents of the secondary at argument j (from 1) with n items
ZipSecondaryItems(j, n) == [k \in 1..n |-> Num(10 * j + k - 1)]

\* what zip can be given at argument j: arrays, enumerables, and values that are neither
ZipSecondaries(j) ==
    {Arr(ZipSecondaryItems(j, n)) : n \in 0..MaxSecondaryLen}
        \cup {Enumerable(ZipSecondaryItems(j, n)) : n \in 0..MaxSecondaryLen}
        \cup {Num(7), Undefined, ObjA}

RECURSIVE ZipArguments(_)
\* the argument lists of at most n secondaries
ZipArguments(n) ==
    IF n = 0 THEN {<<>>}
    ELSE LET shorter == ZipArguments(n - 1)
         IN shorter \cup {Append(a, x) : a \in {q \in shorter : Len(q) = n - 1},
                                         x \in ZipSecondaries(n)}

\* `item instanceof Array`
InstanceOfArray(item) == item.t = "array"

\* `item && item['[Types/_collection/IEnumerable]']`
IsEnumerable(item) == item.t = "enumerable"

\* item[this.index], read one place too far
ZipArrayItemOffByOne(item, index) ==
    IF index + 1 < Len(item.items) THEN item.items[index + 2] ELSE Undefined

\* item[this.index]: line 51
ZipArrayItem(item, index) ==
    IF index >= 0 /\ index < Len(item.items) THEN item.items[index + 1] ELSE Undefined

NoError == [t |-> "none"]
TypeError(arg) == [t |-> "TypeError", arg |-> arg]

RECURSIVE ZipCollect(_, _, _, _)
\* the for loop of moveNext() from argument i (from 1) on: lines 48-62
ZipCollect(i, index, current, itemsEnumerators) ==
    IF i > Len(zItems)
    THEN [current |-> current, itemsEnumerators |-> itemsEnumerators, error |-> NoError,
          reads |-> 0]
    ELSE LET item == zItems[i]
         IN  IF InstanceOfArray(item)
             THEN LET rest == ZipCollect(i + 1, index,
                                         Append(current, ZipArrayItem(item, index)),
                                         itemsEnumerators)
                  IN  [rest EXCEPT !.reads = @ + 1]
             ELSE IF IsEnumerable(item)
             THEN LET held == IF itemsEnumerators[i] = Null THEN CursorAt(0)
                              ELSE itemsEnumerators[i]
                      walked == Arraywise(item.items)
                      step == Cursor_moveNext(walked, held.pos)
                      pushed == IF step.ret THEN Cursor_getCurrent(walked, step.pos)
                                ELSE Undefined
                      rest == ZipCollect(i + 1, index, Append(current, pushed),
                                         [itemsEnumerators EXCEPT ![i] = CursorAt(step.pos)])
                  IN  [rest EXCEPT !.reads = @ + 1]
             ELSE [current |-> current, itemsEnumerators |-> itemsEnumerators,
                   error |-> TypeError(i - 1), reads |-> 0]

\* `return hasNext`, were the zip to end with its shortest secondary
ZipResultShortest(hasNext, collected) ==
    hasNext /\ \A k \in 1..Len(collected) : collected[k] # Undefined

\* `return hasNext`: line 66
ZipResult(hasNext, collected) == hasNext

\* moveNext(): lines 36-67
ZippedEnumerator_moveNext(enumerator, index, current, itemsEnumerators) ==
    LET held == IF enumerator = Null THEN CursorAt(0) ELSE enumerator
        obtained == IF enumerator = Null THEN 1 ELSE 0
        up == Cursor_moveNext(zPrevious, held.pos)
        hasNext == up.ret
        c == ZipCollect(1, index + 1, <<Cursor_getCurrent(zPrevious, up.pos)>>,
                        itemsEnumerators)
    IN  IF ~hasNext
        THEN [enumerator |-> CursorAt(up.pos), index |-> index, current |-> current,
              itemsEnumerators |-> itemsEnumerators, hasNext |-> FALSE,
              ret |-> ZipResult(FALSE, <<>>), error |-> NoError, reads |-> 1,
              obtained |-> obtained]
        ELSE IF c.error # NoError
        THEN [enumerator |-> CursorAt(up.pos), index |-> index + 1, current |-> current,
              itemsEnumerators |-> c.itemsEnumerators, hasNext |-> TRUE,
              ret |-> FALSE, error |-> c.error, reads |-> 1 + c.reads,
              obtained |-> obtained]
        ELSE [enumerator |-> CursorAt(up.pos), index |-> index + 1,
              current |-> Arr(c.current),
              itemsEnumerators |-> c.itemsEnumerators, hasNext |-> TRUE,
              ret |-> ZipResult(TRUE, c.current), error |-> NoError,
              reads |-> 1 + c.reads, obtained |-> obtained]

\* getCurrent(): lines 28-30
ZippedEnumerator_getCurrent(current) == current

\* a constructor that rejects the first argument that is neither array nor enumerable
ZippedEnumerator_constructor_validating(items) ==
    LET bad == {i \in 1..Len(items) : ~InstanceOfArray(items[i]) /\ ~IsEnumerable(items[i])}
    IN  IF bad = {} THEN NoError
        ELSE TypeError((CHOOSE i \in bad : \A j \in bad : i <= j) - 1)

\* constructor: stores previous and items, then reset(); it raises nothing (lines 22-26)
ZippedEnumerator_constructor(items) == NoError

\* the state before `new ZippedEnumerator(previous, items)`, for a primary of at
\* most p elements and at most k secondaries
ZipInitUpTo(p, k) ==
    /\ zPrevious \in {ZipPrimary(n, keyed) : n \in 0..p, keyed \in BOOLEAN}
    /\ zItems \in ZipArguments(k)
    /\ zPhase = "new"
    /\ zEnumerator = Null
    /\ zIndex = -1
    /\ zCurrent = Undefined
    /\ zItemsEnumerators = <<>>
    /\ zOut = <<>>
    /\ zLast = [op |-> "none", ret |-> "none", hasNext |-> FALSE, error |-> NoError]
    /\ zReads = 0
    /\ zRestarted = FALSE
    /\ zObtained = 0

ZipInit == ZipInitUpTo(MaxPrimary, MaxSecondaries)

ZipConstruct ==
    LET error == ZippedEnumerator_constructor(zItems)
    IN  /\ zPhase = "new"
        /\ zPhase' = IF error = NoError THEN "ready" ELSE "failed"
        /\ zEnumerator' = Null
        /\ zIndex' = -1
        /\ zCurrent' = Undefined
        /\ zItemsEnumerators' = [i \in 1..Len(zItems) |-> Null]
        /\ zOut' = <<>>
        /\ zLast' = [op |-> "construct", ret |-> IF error = NoError THEN "ok" ELSE "throw",
                     hasNext |-> FALSE, error |-> error]
        /\ zReads' = 0
        /\ zObtained' = 0
        /\ UNCHANGED <<zPrevious, zItems, zRestarted, zipOthers>>

ZipMoveNext ==
    LET r == ZippedEnumerator_moveNext(zEnumerator, zIndex, zCurrent, zItemsEnumerators)
    IN  /\ zPhase = "ready"
        /\ zEnumerator' = r.enumerator
        /\ zIndex' = r.index
        /\ zCurrent' = r.current
        /\ zItemsEnumerators' = r.itemsEnumerators
        /\ zOut' = IF r.ret THEN Append(zOut, Pair(r.index, r.current)) ELSE zOut
        /\ zLast' = [op |-> "moveNext",
                     ret |-> IF r.error # NoError THEN "throw"
                             ELSE IF r.ret THEN "true" ELSE "false",
                     hasNext |-> r.hasNext, error |-> r.error]
        /\ zReads' = r.reads
        /\ zObtained' = r.obtained
        /\ UNCHANGED <<zPrevious, zItems, zPhase, zRestarted, zipOthers>>

\* reset(): lines 69-74
ZipReset ==
    /\ zPhase = "ready"
    /\ zEnumerator' = Null
    /\ zIndex' = -1
    /\ zCurrent' = Undefined
    /\ zItemsEnumerators' = [i \in 1..Len(zItems) |-> Null]
    /\ zOut' = <<>>
    /\ zLast' = [op |-> "reset", ret |-> "ok", hasNext |-> FALSE, error |-> NoError]
    /\ zReads' = 0
    /\ zRestarted' = (zRestarted \/ Len(zOut) > 0)
    /\ zObtained' = 0
    /\ UNCHANGED <<zPrevious, zItems, zPhase, zipOthers>>

ZipNext == ZipConstruct \/ ZipMoveNext \/ ZipReset

ZipIdle ==
    /\ zPrevious = <<>>
    /\ zItems = <<>>
    /\ zPhase = "idle"
    /\ zEnumerator = Null
    /\ zIndex = -1
    /\ zCurrent = Undefined
    /\ zItemsEnumerators = <<>>
    /\ zOut = <<>>
    /\ zLast = [op |-> "idle", ret |-> "none", hasNext |-> FALSE, error |-> NoError]
    /\ zReads = 0
    /\ zRestarted = FALSE
    /\ zObtained = 0

----------------------------------------------------------------------------
(* SortedEnumerator                                                        *)

\* an element {k, v}: its reference tells the instances with equal k apart
SortObj(ref, k) == [t |-> "object", ref |-> ref, k |-> k]

\* the previous link of a sort: element p has key keys[p]; indexed by position or by key
SortPrevious(keys, keyed) ==
    [p \in 1..Len(keys) |->
        Pair(IF keyed THEN Str("k" \o NumberToString(p - 1)) ELSE Num(p - 1),
             SortObj(p, keys[p]))]

Sign(n) == IF n > 0 THEN 1 ELSE IF n < 0 THEN -1 ELSE 0

Abs(n) == IF n < 0 THEN -n ELSE n

CompareFunctions == {"byK", "byKDesc", "allEqual", "near"}

\* new SortWrapper(item, index): the element paired with its pre-sort index
SortWrapper(item, index) == [item |-> item, index |-> index]

SortWrapper_valueOf(wrapper) == wrapper.item

SortWrapper_indexOf(wrapper) == wrapper.index

\* SortWrapper.clear(item), line 35: the pairing is dropped after the pass; the
\* element that was paired is as it was before
SortWrapper_clear(item, index) == item

\* the previous link's elements after a pass, were sort() called on the array of
\* the link itself and not on the one map() returns: the order of the link changes
SortedEnumerator_elementsAfterPass_sortingInPlace(previous) ==
    [p \in 1..Len(previous) |-> previous[Len(previous) + 1 - p]]

\* the previous link's elements after one sort pass has wrapped and cleared them
SortedEnumerator_elementsAfterPass(previous) ==
    [p \in 1..Len(previous) |->
        Pair(previous[p].index, SortWrapper_clear(previous[p].item, previous[p].index))]

\* this.compareFunction(a, b) on two wrapped elements, for the comparators of the model:
\*   byK      (a, b) => a.k - b.k
\*   byKDesc  (a, b) => b.k - a.k
\*   allEqual (a, b) => 0
\*   near     (a, b) => Math.abs(a.k - b.k) <= 1 ? 0 : a.k - b.k
compareFunction(name, a, b) ==
    LET x == SortWrapper_valueOf(a).k
        y == SortWrapper_valueOf(b).k
    IN  CASE name = "byK" -> Sign(x - y)
          [] name = "byKDesc" -> Sign(y - x)
          [] name = "allEqual" -> 0
          [] name = "near" -> IF Abs(x - y) <= 1 THEN 0 ELSE Sign(x - y)

\* the pairs [index, item] the base cursor pulls from the previous link
IndexedEnumerator_getItems(previous) == previous

\* ECMAScript: comparefn is a consistent comparison function for the values of arr
ConsistentComparator(name, arr) ==
    LET S == {arr[i] : i \in 1..Len(arr)}
        c(a, b) == compareFunction(name, a, b)
    IN  /\ \A a \in S : c(a, a) = 0
        /\ \A a, b \in S : c(a, b) = 0 => c(b, a) = 0
        /\ \A a, b, d \in S :
              /\ (c(a, b) = 0 /\ c(b, d) = 0) => c(a, d) = 0
              /\ (c(a, b) < 0 /\ c(b, d) < 0) => c(a, d) < 0
              /\ (c(a, b) > 0 /\ c(b, d) > 0) => c(a, d) > 0

RECURSIVE StableInsert(_, _, _)
\* x put into the sorted sequence s behind every element that is not greater
StableInsert(name, s, x) ==
    IF s = <<>> THEN <<x>>
    ELSE IF compareFunction(name, s[Len(s)], x) > 0
         THEN Append(StableInsert(name, SubSeq(s, 1, Len(s) - 1), x), s[Len(s)])
         ELSE Append(s, x)

RECURSIVE StableSort(_, _)
StableSort(name, arr) ==
    IF arr = <<>> THEN <<>>
    ELSE StableInsert(name, StableSort(name, SubSeq(arr, 1, Len(arr) - 1)), arr[Len(arr)])

\* every order of the elements of arr
Reorderings(arr) ==
    {[i \in 1..Len(arr) |-> arr[f[i]]] : f \in Permutations(1..Len(arr))}

\* Array.prototype.sort(comparefn), the results ECMAScript (2019) allows: the
\* stable sorted order when comparefn is a consistent comparison function for
\* the elements, an implementation-defined order of the elements otherwise
ArraySort(name, arr) ==
    IF ConsistentComparator(name, arr) THEN {StableSort(name, arr)} ELSE Reorderings(arr)

\* the index a sorted element gets, were the flag read the wrong way round
SortedIndexInverted(shouldSaveIndices, wrapper, position) ==
    IF shouldSaveIndices THEN Num(position) ELSE SortWrapper_indexOf(wrapper)

\* shouldSaveIndices ? SortWrapper.indexOf(item) : index  (line 32; position from 0)
SortedIndex(shouldSaveIndices, wrapper, position) ==
    IF shouldSaveIndices THEN SortWrapper_indexOf(wrapper) ELSE Num(position)

\* _getItems() on an empty cache, were the wrappers collected back to front
SortedEnumerator_sortItemsReversed(previous, name, shouldSaveIndices) ==
    LET pulled == IndexedEnumerator_getItems(previous)
        n == Len(pulled)
        wrapped == [i \in 1..n |-> SortWrapper(pulled[n + 1 - i].item, pulled[n + 1 - i].index)]
    IN  {[i \in 1..n |-> Pair(SortedIndex(shouldSaveIndices, sorted[i], i - 1),
                              SortWrapper_valueOf(sorted[i]))] :
            sorted \in ArraySort(name, wrapped)}

\* _getItems() on an empty cache: wrap, sort, unwrap (lines 27-38); the arrays
\* this._items may become
SortedEnumerator_sortItems(previous, name, shouldSaveIndices) ==
    LET pulled == IndexedEnumerator_getItems(previous)
        wrapped == [i \in 1..Len(pulled) |-> SortWrapper(pulled[i].item, pulled[i].index)]
    IN  {[i \in 1..Len(sorted) |-> Pair(SortedIndex(shouldSaveIndices, sorted[i], i - 1),
                                        SortWrapper_valueOf(sorted[i]))] :
            sorted \in ArraySort(name, wrapped)}

\* _getItems(), were the items pulled and sorted by every call
SortedEnumerator_getItems_uncached(items) ==
    {[items |-> Arr(a), pulled |-> 1, sorted |-> 1] :
        a \in SortedEnumerator_sortItems(sPrevious, sCompareFunction, sShouldSaveIndices)}

\* _getItems(): the cache if there is one, else what the sort may give (lines 24-42);
\* with it, how often the call pulled the previous link and ran the sort
SortedEnumerator_getItems(items) ==
    IF items # Null THEN {[items |-> items, pulled |-> 0, sorted |-> 0]}
    ELSE {[items |-> Arr(a), pulled |-> 1, sorted |-> 1] :
            a \in SortedEnumerator_sortItems(sPrevious, sCompareFunction,
                                             sShouldSaveIndices)}

\* constructor: stores the link and the comparator; nothing is pulled yet
SortInitUpTo(n) ==
    /\ \E keys \in SeqsUpTo(0..MaxSortKey, n), keyed \in BOOLEAN :
          sPrevious = SortPrevious(keys, keyed)
    /\ sShouldSaveIndices \in BOOLEAN
    /\ sCompareFunction \in CompareFunctions
    /\ sItems = Null
    /\ sIndex = -1
    /\ sOut = <<>>
    /\ sLast = [op |-> "new", ret |-> FALSE]
    /\ sPulls = 0
    /\ sSorts = 0
    /\ sFirst = Null
    /\ sRestarted = FALSE

SortInit == SortInitUpTo(MaxSortLen)

\* moveNext() of the base cursor over _getItems()
SortMoveNext ==
    \E got \in SortedEnumerator_getItems(sItems) :
        LET items == got.items
            hasNext == sIndex + 1 < Len(items.items)
        IN  /\ sLast.op # "idle"
            /\ sItems' = items
            /\ sPrevious' = IF got.sorted > 0
                            THEN SortedEnumerator_elementsAfterPass(sPrevious)
                            ELSE sPrevious
            /\ sPulls' = sPulls + got.pulled
            /\ sSorts' = sSorts + got.sorted
            /\ sFirst' = IF sFirst = Null THEN items ELSE sFirst
            /\ sIndex' = IF hasNext THEN sIndex + 1 ELSE sIndex
            /\ sOut' = IF hasNext THEN Append(sOut, items.items[sIndex + 2]) ELSE sOut
            /\ sLast' = [op |-> "moveNext", ret |-> hasNext]
            /\ UNCHANGED <<sShouldSaveIndices, sCompareFunction, sRestarted, sortOthers>>

\* reset() of the base cursor: back before the first item, the cache kept
SortReset ==
    /\ sLast.op # "idle"
    /\ sIndex' = -1
    /\ sOut' = <<>>
    /\ sLast' = [op |-> "reset", ret |-> FALSE]
    /\ sRestarted' = (sRestarted \/ Len(sOut) > 0)
    /\ UNCHANGED <<sPrevious, sShouldSaveIndices, sCompareFunction, sItems, sPulls, sSorts,
                   sFirst, sortOthers>>

SortNext == SortMoveNext \/ SortReset

SortIdle ==
    /\ sPrevious = <<>>
    /\ sShouldSaveIndices = FALSE
    /\ sCompareFunction = "byK"
    /\ sItems = Null
    /\ sIndex = -1
    /\ sOut = <<>>
    /\ sLast = [op |-> "idle", ret |-> FALSE]
    /\ sPulls = 0
    /\ sSorts = 0
    /\ sFirst = Null
    /\ sRestarted = FALSE

----------------------------------------------------------------------------
(* FlattenedEnumerator                                                     *)

\* the container kinds of an upstream: all arrays, all enumerables, or arrays
\* holding enumerables holding arrays ...
FlatKinds == {"array", "enumerable", "mixed"}

FlatContainer(kinds, depth, items) ==
    IF kinds = "array" \/ (kinds = "mixed" /\ depth % 2 = 1)
    THEN Arr(items) ELSE Enumerable(items)

RECURSIVE FlatValuesAt(_, _, _, _)
RECURSIVE FlatForestsAt(_, _, _, _, _)
\* the elements of at most n nodes: an atom, which is the number that spells its
\* place (child 1 of child 2 of the upstream is 21), or a container of elements
FlatValuesAt(n, place, kinds, depth) ==
    {Num(place)} \cup
        {FlatContainer(kinds, depth, f) : f \in FlatForestsAt(n - 1, place, 1, kinds, depth + 1)}

\* the sequences of elements of at most m nodes together, the first of them being
\* child number `child` of the container at `place`
FlatForestsAt(m, place, child, kinds, depth) ==
    {<<>>} \cup UNION {
        {<<v>> \o f : v \in FlatValuesAt(k, 10 * place + child, kinds, depth),
                      f \in FlatForestsAt(m - k, place, child + 1, kinds, depth)} :
        k \in 1..m}

\* the previous link of a flatten: indexed by position or by key
FlatPrevious(values, keyed) ==
    [p \in 1..Len(values) |->
        Pair(IF keyed THEN Str("k" \o NumberToString(p - 1)) ELSE Num(p - 1), values[p])]

\* an element the mover descends into: array-like or enumerable
IsContainer(v) == InstanceOfArray(v) \/ IsEnumerable(v)

\* one level of the mover: a cursor over the elements of one container
FlatFrame(items, pos) == [items |-> items, pos |-> pos]

\* new FlattenedMover(previous.getEnumerator()): a stack holding the upstream cursor
FlattenedMover(previous) ==
    [t |-> "mover", stack |-> <<FlatFrame([p \in 1..Len(previous) |-> previous[p].item], 0)>>]

RECURSIVE FlattenedMover_moveNext(_)
\* mover.moveNext(): advance the innermost cursor; descend into a container
\* instead of yielding it; on exhaustion pop to the parent level
FlattenedMover_moveNext(stack) ==
    LET top == stack[Len(stack)]
        below == SubSeq(stack, 1, Len(stack) - 1)
    IN  IF top.pos < Len(top.items)
        THEN LET moved == Append(below, FlatFrame(top.items, top.pos + 1))
                 element == top.items[top.pos + 1]
             IN  IF IsContainer(element)
                 THEN FlattenedMover_moveNext(Append(moved, FlatFrame(element.items, 0)))
                 ELSE [stack |-> moved, ret |-> TRUE]
        ELSE IF Len(stack) = 1
             THEN [stack |-> stack, ret |-> FALSE]
             ELSE FlattenedMover_moveNext(below)

\* mover.getCurrent(): the element under the innermost cursor
FlattenedMover_getCurrent(stack) ==
    LET top == stack[Len(stack)]
    IN  IF top.pos = 0 THEN Undefined ELSE top.items[top.pos]

\* moveNext(), were a new mover made by every call
FlattenedEnumerator_moveNext_freshMover(mover, index) ==
    LET held == FlattenedMover(fPrevious)
        m == FlattenedMover_moveNext(held.stack)
        hasNext == m.ret
    IN  [mover |-> [held EXCEPT !.stack = m.stack],
         index |-> IF hasNext THEN index + 1 ELSE index,
         ret |-> hasNext, obtained |-> 1]

\* moveNext(), were the index advanced whatever the mover answers
FlattenedEnumerator_moveNext_alwaysCounting(mover, index) ==
    LET held == IF mover = Null THEN FlattenedMover(fPrevious) ELSE mover
        m == FlattenedMover_moveNext(held.stack)
    IN  [mover |-> [held EXCEPT !.stack = m.stack], index |-> index + 1, ret |-> m.ret,
         obtained |-> IF mover = Null THEN 1 ELSE 0]

\* moveNext(): lines 121-128
FlattenedEnumerator_moveNext(mover, index) ==
    LET held == IF mover = Null THEN FlattenedMover(fPrevious) ELSE mover
        m == FlattenedMover_moveNext(held.stack)
        hasNext == m.ret
    IN  [mover |-> [held EXCEPT !.stack = m.stack],
         index |-> IF hasNext THEN index + 1 ELSE index,
         ret |-> hasNext, obtained |-> IF mover = Null THEN 1 ELSE 0]

\* getCurrent(): line 114
FlattenedEnumerator_getCurrent(mover) ==
    IF mover # Null THEN FlattenedMover_getCurrent(mover.stack) ELSE Undefined

\* getCurrentIndex(): line 118
FlattenedEnumerator_getCurrentIndex(index) == index

\* reset(), were the counter left where it is
FlattenedEnumerator_reset_keepingIndex(index) ==
    [mover |-> Null, index |-> index, obtained |-> 0]

\* reset(): lines 130-133
FlattenedEnumerator_reset(index) == [mover |-> Null, index |-> -1, obtained |-> 0]

\* constructor: stores the link, then reset(); the link yields at most n elements,
\* atoms and containers at every depth together
FlatInitUpTo(n) ==
    /\ \E kinds \in FlatKinds, keyed \in BOOLEAN :
          \E values \in FlatForestsAt(n, 0, 1, kinds, 1) :
              fPrevious = FlatPrevious(values, keyed)
    /\ fMover = Null
    /\ fIndex = -1
    /\ fOut = <<>>
    /\ fLast = [op |-> "new", ret |-> FALSE]
    /\ fReads = 0
    /\ fRestarted = FALSE
    /\ fObtained = 0

FlatInit == FlatInitUpTo(MaxFlatNodes)

FlatMoveNext ==
    LET r == FlattenedEnumerator_moveNext(fMover, fIndex)
    IN  /\ fLast.op # "idle"
        /\ fMover' = r.mover
        /\ fIndex' = r.index
        /\ fOut' = IF r.ret
                   THEN Append(fOut, Pair(FlattenedEnumerator_getCurrentIndex(r.index),
                                          FlattenedEnumerator_getCurrent(r.mover)))
                   ELSE fOut
        /\ fLast' = [op |-> "moveNext", ret |-> r.ret]
        /\ fReads' = 1
        /\ fObtained' = r.obtained
        /\ UNCHANGED <<fPrevious, fRestarted, flatOthers>>

FlatReset ==
    LET r == FlattenedEnumerator_reset(fIndex)
    IN  /\ fLast.op # "idle"
        /\ fMover' = r.mover
        /\ fIndex' = r.index
        /\ fOut' = <<>>
        /\ fLast' = [op |-> "reset", ret |-> FALSE]
        /\ fReads' = 0
        /\ fRestarted' = (fRestarted \/ Len(fOut) > 0)
        /\ fObtained' = r.obtained
        /\ UNCHANGED <<fPrevious, flatOthers>>

FlatNext == FlatMoveNext \/ FlatReset

FlatIdle ==
    /\ fPrevious = <<>>
    /\ fMover = Null
    /\ fIndex = -1
    /\ fOut = <<>>
    /\ fLast = [op |-> "idle", ret |-> FALSE]
    /\ fReads = 0
    /\ fRestarted = FALSE
    /\ fObtained = 0

----------------------------------------------------------------------------
(* MappedEnumerator                                                        *)

MapValues == {Num(1), Num(2)}

\* the previous link of a map: the values indexed by position or by key
MapPrevious(values, keyed) ==
    [k \in 1..Len(values) |->
        Pair(IF keyed THEN Str("k" \o NumberToString(k - 1)) ELSE Num(k - 1), values[k])]

MapCallbacks == {"double", "index", "self", "undefined"}

\* this.callback.call(this.callbackContext, item, index), for the callbacks of the model
callback(name, item, index) ==
    CASE name = "double" -> Num(2 * item.n)
      [] name = "index" -> index
      [] name = "self" -> item
      [] name = "undefined" -> Undefined

\* the arguments of one invocation of the callback
Invocation(item, index) == [item |-> item, index |-> index]

\* reset(), were it to fetch the first element ahead of the first moveNext()
MappedEnumerator_reset_priming ==
    LET up == Cursor_moveNext(mPrevious, 0)
        item == Cursor_getCurrent(mPrevious, up.pos)
        index == Cursor_getCurrentIndex(mPrevious, up.pos)
    IN  [enumerator |-> 0,
         current |-> IF up.ret THEN callback(mCallback, item, index) ELSE Undefined,
         called |-> IF up.ret THEN <<Invocation(item, index)>> ELSE <<>>,
         reads |-> 1, obtained |-> 1]

\* reset(), were the cursor it holds reset in place of a new one being requested
MappedEnumerator_reset_reusing ==
    [enumerator |-> 0, current |-> Undefined, called |-> <<>>, reads |-> 0, obtained |-> 0]

\* reset(): a new upstream cursor, this.previous.getEnumerator(), and no current
\* element (lines 52-55)
MappedEnumerator_reset ==
    [enumerator |-> 0, current |-> Undefined, called |-> <<>>, reads |-> 0, obtained |-> 1]

\* moveNext(), were the current element dropped when the upstream has no more
MappedEnumerator_moveNext_clearing(enumerator, current) ==
    LET up == Cursor_moveNext(mPrevious, enumerator)
        item == Cursor_getCurrent(mPrevious, up.pos)
        index == Cursor_getCurrentIndex(mPrevious, up.pos)
    IN  IF up.ret
        THEN [enumerator |-> up.pos, current |-> callback(mCallback, item, index),
              called |-> <<Invocation(item, index)>>, reads |-> 1, ret |-> TRUE]
        ELSE [enumerator |-> up.pos, current |-> Undefined,
              called |-> <<>>, reads |-> 1, ret |-> FALSE]

\* moveNext(): lines 39-50
MappedEnumerator_moveNext(enumerator, current) ==
    LET up == Cursor_moveNext(mPrevious, enumerator)
        item == Cursor_getCurrent(mPrevious, up.pos)
        index == Cursor_getCurrentIndex(mPrevious, up.pos)
    IN  IF up.ret
        THEN [enumerator |-> up.pos, current |-> callback(mCallback, item, index),
              called |-> <<Invocation(item, index)>>, reads |-> 1, ret |-> TRUE]
        ELSE [enumerator |-> up.pos, current |-> current,
              called |-> <<>>, reads |-> 1, ret |-> FALSE]

\* getCurrent(), were it to map the upstream element again
MappedEnumerator_getCurrent_recomputing(enumerator, current) ==
    LET item == Cursor_getCurrent(mPrevious, enumerator)
        index == Cursor_getCurrentIndex(mPrevious, enumerator)
    IN  IF enumerator = 0 THEN [ret |-> current, called |-> <<>>]
        ELSE [ret |-> callback(mCallback, item, index),
              called |-> <<Invocation(item, index)>>]

\* getCurrent(): line 32
MappedEnumerator_getCurrent(enumerator, current) == [ret |-> current, called |-> <<>>]

\* getCurrentIndex(): line 36
MappedEnumerator_getCurrentIndex(enumerator) == Cursor_getCurrentIndex(mPrevious, enumerator)

\* constructor: stores the link and the callback, then reset() (lines 24-29); the
\* link yields at most n elements
MapInitUpTo(n) ==
    /\ mPrevious \in {MapPrevious(s, keyed) : s \in SeqsUpTo(MapValues, n),
                                             keyed \in BOOLEAN}
    /\ mCallback \in MapCallbacks
    /\ mEnumerator = MappedEnumerator_reset.enumerator
    /\ mCurrent = MappedEnumerator_reset.current
    /\ mCalls = MappedEnumerator_reset.called
    /\ mReads = MappedEnumerator_reset.reads
    /\ mGot = Undefined
    /\ mRestarted = FALSE
    /\ mOut = <<>>
    /\ mLast = [op |-> "new", ret |-> FALSE]
    /\ mObtained = MappedEnumerator_reset.obtained

MapInit == MapInitUpTo(MaxMapLen)

MapMoveNext ==
    LET r == MappedEnumerator_moveNext(mEnumerator, mCurrent)
    IN  /\ mLast.op # "idle"
        /\ mEnumerator' = r.enumerator
        /\ mCurrent' = r.current
        /\ mCalls' = mCalls \o r.called
        /\ mReads' = r.reads
        /\ mOut' = IF r.ret
                   THEN Append(mOut, Pair(MappedEnumerator_getCurrentIndex(r.enumerator),
                                          MappedEnumerator_getCurrent(r.enumerator,
                                                                      r.current).ret))
                   ELSE mOut
        /\ mLast' = [op |-> "moveNext", ret |-> r.ret]
        /\ mObtained' = 0
        /\ UNCHANGED <<mPrevious, mCallback, mGot, mRestarted, mapOthers>>

MapGetCurrent ==
    LET r == MappedEnumerator_getCurrent(mEnumerator, mCurrent)
    IN  /\ mLast.op # "idle"
        /\ mGot' = r.ret
        /\ mCalls' = mCalls \o r.called
        /\ UNCHANGED <<mPrevious, mCallback, mEnumerator, mCurrent, mReads, mRestarted,
                       mOut, mLast, mObtained, mapOthers>>

MapReset ==
    LET r == MappedEnumerator_reset
    IN  /\ mLast.op # "idle"
        /\ mEnumerator' = r.enumerator
        /\ mCurrent' = r.current
        /\ mCalls' = r.called
        /\ mReads' = r.reads
        /\ mGot' = Undefined
        /\ mRestarted' = (mRestarted \/ Len(mOut) > 0)
        /\ mOut' = <<>>
        /\ mLast' = [op |-> "reset", ret |-> FALSE]
        /\ mObtained' = r.obtained
        /\ UNCHANGED <<mPrevious, mCallback, mapOthers>>

MapNext == MapMoveNext \/ MapGetCurrent \/ MapReset

MapIdle ==
    /\ mPrevious = <<>>
    /\ mCallback = "self"
    /\ mEnumerator = 0
    /\ mCurrent = Undefined
    /\ mCalls = <<>>
    /\ mReads = 0
    /\ mGot = Undefined
    /\ mRestarted = FALSE
    /\ mOut = <<>>
    /\ mLast = [op |-> "idle", ret |-> FALSE]
    /\ mObtained = 0

----------------------------------------------------------------------------
(* Objectwise: the cursor over the own properties of an object             *)

Bool(b) == [t |-> "boolean", b |-> b]

\* one own enumerable property
Property(key, value) == [key |-> key, value |-> value]

\* an object literal: its properties in the order they were created
PlainObject(props) == [t |-> "object", ref |-> 0, props |-> props]

\* Object.create(null) with properties: an object outside Object.prototype's chain
Dictionary(props) == [t |-> "dictionary", props |-> props]

ObjPropertyNames == {"a", "b", "0", "1"}

\* the property lists of at most n properties with different names; the k-th created
\* property holds the number k
PropertyLists(n) ==
    {[k \in 1..Len(names) |-> Property(names[k], Num(k))] :
        names \in {s \in SeqsUpTo(ObjPropertyNames, n) :
                      \A i, j \in 1..Len(s) : i # j => s[i] # s[j]}}

\* a property name that is an array index (a canonical numeric string)
IsArrayIndex(key) == \E n \in 0..9 : NumberToString(n) = key

ArrayIndexOf(key) == CHOOSE n \in 0..9 : NumberToString(n) = key

RECURSIVE SortedIndices(_)
\* the array indices among a set of numbers, ascending
SortedIndices(ns) ==
    IF ns = {} THEN <<>>
    ELSE LET least == CHOOSE n \in ns : \A m \in ns : n <= m
         IN  <<NumberToString(least)>> \o SortedIndices(ns \ {least})

\* the property names in creation order, array indices left out
RECURSIVE NamesInCreationOrder(_)
NamesInCreationOrder(props) ==
    IF props = <<>> THEN <<>>
    ELSE (IF IsArrayIndex(props[1].key) THEN <<>> ELSE <<props[1].key>>)
             \o NamesInCreationOrder(Tail(props))

\* Object.keys(o): array indices ascending, then the other names in creation order
ObjectKeys(o) ==
    IF o.t = "array" THEN [k \in 1..Len(o.items) |-> NumberToString(k - 1)]
    ELSE SortedIndices({ArrayIndexOf(o.props[k].key) :
                            k \in {i \in 1..Len(o.props) : IsArrayIndex(o.props[i].key)}})
             \o NamesInCreationOrder(o.props)

\* o[key] for an own property
Get(o, key) ==
    IF o.t = "array" THEN o.items[ArrayIndexOf(key) + 1]
    ELSE o.props[CHOOSE k \in 1..Len(o.props) : o.props[k].key = key].value

Error(message) == [t |-> "Error", message |-> message]

ObjFilters == {"none", "odd", "named", "nothing"}

\* this._filter(item, index), for the filters of the model
filter(name, item, index) ==
    CASE name = "odd" -> item.n % 2 = 1
      [] name = "named" -> ~IsArrayIndex(index.s)
      [] name = "nothing" -> FALSE

\* the constructor, were undefined refused like every other non-object
Objectwise_constructor_strict(items) ==
    IF ~InstanceOfObject(items)
    THEN [error |-> Error("Argument items should be an instance of Object"),
          items |-> Null, keys |-> <<>>]
    ELSE [error |-> NoError, items |-> items, keys |-> ObjectKeys(items)]

\* constructor: lines 120-132
Objectwise_constructor(items) ==
    LET checkedItems == IF items = Undefined THEN PlainObject(<<>>) ELSE items
    IN  IF ~InstanceOfObject(checkedItems)
        THEN [error |-> Error("Argument items should be an instance of Object"),
              items |-> Null, keys |-> <<>>]
        ELSE [error |-> NoError, items |-> checkedItems, keys |-> ObjectKeys(checkedItems)]

\* getCurrent(), reading the key after the current one
Objectwise_getCurrent_next(index) ==
    IF index < 0 \/ index + 2 > Len(oKeys) THEN Undefined
    ELSE Get(oItems, oKeys[index + 2])

\* getCurrent(): lines 138-143
Objectwise_getCurrent(index) ==
    IF index < 0 THEN Undefined ELSE Get(oItems, oKeys[index + 1])

\* getCurrentIndex(): lines 166-168
Objectwise_getCurrentIndex(index) ==
    IF index < 0 \/ index >= Len(oKeys) THEN Undefined ELSE Str(oKeys[index + 1])

\* the test of line 152, were a rejected entry yielded like an accepted one
Objectwise_rejects_never(name, index) == FALSE

\* `this._filter && !this._filter(current, this.getCurrentIndex())`: line 152
Objectwise_rejects(name, index) ==
    name # "none" /\ ~filter(name, Objectwise_getCurrent(index),
                             Objectwise_getCurrentIndex(index))

RECURSIVE Objectwise_moveNext_wrapping(_, _)
\* moveNext(), were the cursor to go back before the first entry when it finds
\* no entry left
Objectwise_moveNext_wrapping(index, name) ==
    IF 1 + index >= Len(oKeys) THEN [index |-> -1, ret |-> FALSE]
    ELSE IF Objectwise_rejects(name, index + 1)
         THEN Objectwise_moveNext_wrapping(index + 1, name)
         ELSE [index |-> index + 1, ret |-> TRUE]

RECURSIVE Objectwise_moveNext(_, _)
\* moveNext(): lines 145-156
Objectwise_moveNext(index, name) ==
    IF 1 + index >= Len(oKeys) THEN [index |-> index, ret |-> FALSE]
    ELSE IF Objectwise_rejects(name, index + 1)
         THEN Objectwise_moveNext(index + 1, name)
         ELSE [index |-> index + 1, ret |-> TRUE]

\* what a cursor can be constructed over, and what it cannot
ObjArguments ==
    {PlainObject(p) : p \in PropertyLists(MaxProps)}
        \cup {Arr(<<Num(1), Num(2)>>), Dictionary(<<Property("a", Num(1))>>)}
        \cup {Undefined, Null, Num(7), Num(0), Str("ab"), Str(""), Bool(TRUE), Bool(FALSE)}

\* the state before `new Objectwise(items)`
ObjInit ==
    /\ oArgument \in ObjArguments
    /\ oPhase = "new"
    /\ oItems = Null
    /\ oKeys = <<>>
    /\ oIndex = -1
    /\ oFilter = "none"
    /\ oFiltered = TRUE
    /\ oRestarted = FALSE
    /\ oOut = <<>>
    /\ oLast = [op |-> "none", ret |-> FALSE, error |-> NoError]

\* new Objectwise(items); _index and _filter come from the prototype (lines 182-188)
ObjConstruct ==
    LET r == Objectwise_constructor(oArgument)
    IN  /\ oPhase = "new"
        /\ oPhase' = IF r.error = NoError THEN "ready" ELSE "failed"
        /\ oItems' = r.items
        /\ oKeys' = r.keys
        /\ oLast' = [op |-> "construct", ret |-> FALSE, error |-> r.error]
        /\ UNCHANGED <<oArgument, oIndex, oFilter, oFiltered, oRestarted, oOut, objOthers>>

ObjMoveNext ==
    LET r == Objectwise_moveNext(oIndex, oFilter)
    IN  /\ oPhase = "ready"
        /\ oIndex' = r.index
        /\ oOut' = IF r.ret
                   THEN Append(oOut, Pair(Objectwise_getCurrentIndex(r.index),
                                          Objectwise_getCurrent(r.index)))
                   ELSE oOut
        /\ oLast' = [op |-> "moveNext", ret |-> r.ret, error |-> NoError]
        /\ UNCHANGED <<oArgument, oPhase, oItems, oKeys, oFilter, oFiltered, oRestarted,
                       objOthers>>

\* reset(): lines 158-160
ObjReset ==
    /\ oPhase = "ready"
    /\ oIndex' = -1
    /\ oFiltered' = TRUE
    /\ oRestarted' = (oRestarted \/ Len(oOut) > 0)
    /\ oOut' = <<>>
    /\ oLast' = [op |-> "reset", ret |-> FALSE, error |-> NoError]
    /\ UNCHANGED <<oArgument, oPhase, oItems, oKeys, oFilter, objOthers>>

\* setFilter(filter): lines 175-177; oFiltered tells whether every entry passed so far
\* in this traversal was tested by the filter now installed
ObjSetFilter ==
    /\ oPhase = "ready"
    /\ \E name \in ObjFilters \ {oFilter} :
          /\ oFilter' = name
          /\ oFiltered' = (oIndex = -1)
    /\ oLast' = [op |-> "setFilter", ret |-> FALSE, error |-> NoError]
    /\ UNCHANGED <<oArgument, oPhase, oItems, oKeys, oIndex, oRestarted, oOut, objOthers>>

ObjNext == ObjConstruct \/ ObjMoveNext \/ ObjReset \/ ObjSetFilter

ObjIdle ==
    /\ oArgument = Undefined
    /\ oPhase = "idle"
    /\ oItems = Null
    /\ oKeys = <<>>
    /\ oIndex = -1
    /\ oFilter = "none"
    /\ oFiltered = TRUE
    /\ oRestarted = FALSE
    /\ oOut = <<>>
    /\ oLast = [op |-> "idle", ret |-> FALSE, error |-> NoError]

----------------------------------------------------------------------------
(* factory                                                                 *)

\* a chain link: `kind` names its class, `source` is what it wraps, `ref` its identity
Link(kind, source, ref) ==
    [t |-> "link", kind |-> kind, source |-> source, ref |-> ref, marked |-> TRUE]

\* a value of an object type; `marked` tells whether its property
\* '[Types/_collection/IEnumerable]' is truthy
SourceObject(t, marked) == [t |-> t, marked |-> marked]

\* the types of the values that are objects of the language; a "dictionary" is an
\* object created by Object.create(null)
ObjectTypes == {"link", "array", "object", "function", "dictionary", "enumerable"}

\* what factory can be given
FactorySources ==
    {SourceObject(t, marked) : t \in {"array", "object", "function", "dictionary"},
                               marked \in BOOLEAN}
        \cup {Link(kind, Null, 0) : kind \in {"Mapped", "Enumerable", "Arraywise",
                                               "Objectwise"}}
        \cup {Undefined, Null, Num(7), Num(0), Str("ab"), Str(""), Bool(TRUE), Bool(FALSE)}

\* `source instanceof Abstract`
InstanceOfAbstract(source) == source.t = "link"

\* ToBoolean(source)
Truthy(source) ==
    CASE source.t \in {"undefined", "null"} -> FALSE
      [] source.t = "number" -> source.n # 0
      [] source.t = "string" -> source.s # ""
      [] source.t = "boolean" -> source.b
      [] OTHER -> TRUE

\* `source && source['[Types/_collection/IEnumerable]']`
ExposesIEnumerable(source) ==
    Truthy(source) /\ source.t \in ObjectTypes /\ source.marked

UnsupportedSourceType == [t |-> "TypeError", message |-> "Unsupported source type"]

\* what the throw of line 88 raises: the message is built with `${source}`, and an
\* object without toString and valueOf cannot be converted to a string
FactoryThrow(source) ==
    IF source.t = "dictionary"
    THEN [t |-> "TypeError", message |-> "Cannot convert object to primitive value"]
    ELSE UnsupportedSourceType

\* factory, were a link wrapped like any other enumerable
factory_rewrapping(source, ref) ==
    IF ExposesIEnumerable(source)
    THEN [ret |-> Link("Enumerable", source, ref), error |-> NoError]
    ELSE IF InstanceOfArray(source)
    THEN [ret |-> Link("Arraywise", source, ref), error |-> NoError]
    ELSE IF InstanceOfObject(source)
    THEN [ret |-> Link("Objectwise", source, ref), error |-> NoError]
    ELSE [ret |-> Null, error |-> FactoryThrow(source)]

\* factory(source): lines 78-89; ref is the identity a link created by the call gets
factory(source, ref) ==
    IF InstanceOfAbstract(source)
    THEN [ret |-> source, error |-> NoError]
    ELSE IF ExposesIEnumerable(source)
    THEN [ret |-> Link("Enumerable", source, ref), error |-> NoError]
    ELSE IF InstanceOfArray(source)
    THEN [ret |-> Link("Arraywise", source, ref), error |-> NoError]
    ELSE IF InstanceOfObject(source)
    THEN [ret |-> Link("Objectwise", source, ref), error |-> NoError]
    ELSE [ret |-> Null, error |-> FactoryThrow(source)]

\* nothing has been given to factory yet
FactoryInit ==
    /\ facSource = Undefined
    /\ facResult = Null
    /\ facError = NoError
    /\ facCreated = 0
    /\ facLast = [op |-> "none", created |-> 0]

\* factory(source) for a source of the model
FactoryCall ==
    /\ facLast.op # "idle"
    /\ facCreated < MaxLinks
    /\ \E source \in FactorySources :
          LET r == factory(source, facCreated + 1)
          IN  /\ facSource' = source
              /\ facResult' = r.ret
              /\ facError' = r.error
              /\ facCreated' = IF r.ret # Null /\ r.ret # source
                               THEN facCreated + 1 ELSE facCreated
    /\ facLast' = [op |-> "call", created |-> facCreated]
    /\ UNCHANGED facOthers

\* factory(link) for the link the last call returned
FactoryCallOnResult ==
    /\ facLast.op # "idle"
    /\ facCreated < MaxLinks
    /\ facResult # Null
    /\ LET r == factory(facResult, facCreated + 1)
       IN  /\ facSource' = facResult
           /\ facResult' = r.ret
           /\ facError' = r.error
           /\ facCreated' = IF r.ret # Null /\ r.ret # facResult
                            THEN facCreated + 1 ELSE facCreated
    /\ facLast' = [op |-> "again", created |-> facCreated]
    /\ UNCHANGED facOthers

FactoryNext == FactoryCall \/ FactoryCallOnResult

FactoryIdle ==
    /\ facSource = Undefined
    /\ facResult = Null
    /\ facError = NoError
    /\ facCreated = 0
    /\ facLast = [op |-> "idle", created |-> 0]

----------------------------------------------------------------------------
(* A second cursor over the same previous link.  The first cursor of a     *)
(* Mapped, Uniquely, Zipped or Flattened link is the component above; the  *)
(* second is an instance of the same class, holding its own fields in      *)
(* tThis, over the same link, callback, extractor and secondaries.         *)

TwinKinds == {"mapped", "uniquely", "zipped", "flattened"}

\* the fields the constructor leaves in a new instance: it stores the link and
\* calls reset()
TwinCreate(kind) ==
    CASE kind = "mapped" ->
            [enumerator |-> MappedEnumerator_reset.enumerator,
             current |-> MappedEnumerator_reset.current]
      [] kind = "uniquely" ->
            LET r == UniquelyEnumerator_reset(<<>>, {})
            IN  [enumerator |-> r.enumerator, objectsHash |-> r.objectsHash,
                 keysHash |-> r.keysHash]
      [] kind = "zipped" ->
            [enumerator |-> Null, index |-> -1, current |-> Undefined,
             itemsEnumerators |-> [i \in 1..Len(zItems) |-> Null]]
      [] kind = "flattened" ->
            LET r == FlattenedEnumerator_reset(-1)
            IN  [mover |-> r.mover, index |-> r.index]

\* moveNext() of the second instance: the fields it leaves, how it ended and what
\* getCurrentIndex() and getCurrent() give after it
TwinMapped_moveNext(this) ==
    LET r == MappedEnumerator_moveNext(this.enumerator, this.current)
    IN  [this |-> [enumerator |-> r.enumerator, current |-> r.current],
         ret |-> IF r.ret THEN "true" ELSE "false",
         yield |-> Pair(MappedEnumerator_getCurrentIndex(r.enumerator), r.current)]

\* moveNext() of the second instance, were the stores of a Uniquely cursor kept
\* on the prototype, where every instance reads the same ones
TwinUniquely_moveNext_storesOnPrototype(this) ==
    LET r == UniquelyEnumerator_moveNext(this.enumerator, uObjectsHash, uKeysHash)
    IN  [this |-> [enumerator |-> r.enumerator, objectsHash |-> r.objectsHash,
                   keysHash |-> r.keysHash],
         ret |-> IF r.ret THEN "true" ELSE "false",
         yield |-> Pair(UniquelyEnumerator_getCurrentIndex(r.enumerator),
                        UniquelyEnumerator_getCurrent(r.enumerator))]

\* this.keysHash and this.objectsHash are own properties of the instance, made by
\* its reset() (lines 64-65)
TwinUniquely_moveNext(this) ==
    LET r == UniquelyEnumerator_moveNext(this.enumerator, this.objectsHash, this.keysHash)
    IN  [this |-> [enumerator |-> r.enumerator, objectsHash |-> r.objectsHash,
                   keysHash |-> r.keysHash],
         ret |-> IF r.ret THEN "true" ELSE "false",
         yield |-> Pair(UniquelyEnumerator_getCurrentIndex(r.enumerator),
                        UniquelyEnumerator_getCurrent(r.enumerator))]

TwinZipped_moveNext(this) ==
    LET r == ZippedEnumerator_moveNext(this.enumerator, this.index, this.current,
                                       this.itemsEnumerators)
    IN  [this |-> [enumerator |-> r.enumerator, index |-> r.index, current |-> r.current,
                   itemsEnumerators |-> r.itemsEnumerators],
         ret |-> IF r.error # NoError THEN "throw" ELSE IF r.ret THEN "true" ELSE "false",
         yield |-> Pair(r.index, r.current)]

TwinFlattened_moveNext(this) ==
    LET r == FlattenedEnumerator_moveNext(this.mover, this.index)
    IN  [this |-> [mover |-> r.mover, index |-> r.index],
         ret |-> IF r.ret THEN "true" ELSE "false",
         yield |-> Pair(FlattenedEnumerator_getCurrentIndex(r.index),
                        FlattenedEnumerator_getCurrent(r.mover))]

Twin_moveNext(kind, this) ==
    CASE kind = "mapped" -> TwinMapped_moveNext(this)
      [] kind = "uniquely" -> TwinUniquely_moveNext(this)
      [] kind = "zipped" -> TwinZipped_moveNext(this)
      [] kind = "flattened" -> TwinFlattened_moveNext(this)

\* reset() of the second instance
Twin_reset(kind, this) ==
    CASE kind = "mapped" ->
            [enumerator |-> MappedEnumerator_reset.enumerator,
             current |-> MappedEnumerator_reset.current]
      [] kind = "uniquely" ->
            LET r == UniquelyEnumerator_reset(this.objectsHash, this.keysHash)
            IN  [enumerator |-> r.enumerator, objectsHash |-> r.objectsHash,
                 keysHash |-> r.keysHash]
      [] kind = "zipped" ->
            [enumerator |-> Null, index |-> -1, current |-> Undefined,
             itemsEnumerators |-> [i \in 1..Len(zItems) |-> Null]]
      [] kind = "flattened" ->
            LET r == FlattenedEnumerator_reset(this.index)
            IN  [mover |-> r.mover, index |-> r.index]

\* the first cursor stands between two elements of its traversal
TwinFirstUnderWay(kind) ==
    CASE kind = "mapped" -> Len(mOut) > 0 /\ mLast.ret
      [] kind = "uniquely" -> Len(uOut) > 0 /\ uLast.ret
      [] kind = "zipped" -> Len(zOut) > 0 /\ zLast.ret = "true"
      [] kind = "flattened" -> Len(fOut) > 0 /\ fLast.ret

\* a second cursor of the kind is obtained from the link
TwinInit(kind) ==
    /\ tKind = kind
    /\ tThis = TwinCreate(kind)
    /\ tOut = <<>>
    /\ tLast = [op |-> "new", ret |-> "none"]
    /\ tMixed = FALSE

TwinMoveNext ==
    LET r == Twin_moveNext(tKind, tThis)
    IN  /\ tKind \in TwinKinds
        /\ tThis' = r.this
        /\ tOut' = IF r.ret = "true" THEN Append(tOut, r.yield) ELSE tOut
        /\ tLast' = [op |-> "moveNext", ret |-> r.ret]
        /\ tMixed' = (tMixed \/ (Len(tOut) > 0 /\ TwinFirstUnderWay(tKind)))
        /\ UNCHANGED <<tKind, twinOthers>>

TwinReset ==
    /\ tKind \in TwinKinds
    /\ tThis' = Twin_reset(tKind, tThis)
    /\ tOut' = <<>>
    /\ tLast' = [op |-> "reset", ret |-> "none"]
    /\ UNCHANGED <<tKind, tMixed, twinOthers>>

TwinNext == TwinMoveNext \/ TwinReset

TwinIdle ==
    /\ tKind = "none"
    /\ tThis = Null
    /\ tOut = <<>>
    /\ tLast = [op |-> "idle", ret |-> "none"]
    /\ tMixed = FALSE

----------------------------------------------------------------------------
(* SortedEnumerator.defaultCompare on the wrapped items of one sort pass   *)

\* the primitive values sorted: numbers and strings, one string numeric
CompareValues == {Num(1), Num(2), Str("1"), Str("a"), Str("b")}

\* the wrappers line 28 makes of the values, one per position
CompareWrapped(values) == [p \in 1..Len(values) |-> SortWrapper(values[p], p - 1)]

\* a === b on two wrappers of one pass: true of a wrapper and itself only (the
\* wrappers of one pass differ in their index)
SameWrapper(a, b) == a = b

\* ToPrimitive of a wrapper: its valueOf()
ToPrimitive(wrapper) == SortWrapper_valueOf(wrapper)

NaN == [t |-> "NaN"]

\* ToNumber of a primitive; NaN where the string spells no number
ToNumber(v) ==
    IF v.t = "number" THEN v
    ELSE CASE v.s = "1" -> Num(1)
           [] OTHER -> NaN

\* the order of the strings of the model by code units
StringRank(s) ==
    CASE s = "1" -> 1
      [] s = "a" -> 2
      [] s = "b" -> 3

\* x > y on primitives: by code units when both are strings, else by ToNumber,
\* false when either is NaN
PrimitiveGreater(x, y) ==
    IF x.t = "string" /\ y.t = "string" THEN StringRank(x.s) > StringRank(y.s)
    ELSE LET nx == ToNumber(x)
             ny == ToNumber(y)
         IN  IF nx = NaN \/ ny = NaN THEN FALSE ELSE nx.n > ny.n

\* a > b on two wrappers
GreaterThan(a, b) == PrimitiveGreater(ToPrimitive(a), ToPrimitive(b))

\* a === b ? 0 : (a > b ? 1 : -1)  (lines 44-46), on what line 29 hands it
defaultCompare(a, b) ==
    IF SameWrapper(a, b) THEN 0
    ELSE IF GreaterThan(a, b) THEN 1 ELSE -1

\* the values of the previous link, wrapped for a sort with the default comparator
CompareInit ==
    /\ dItems \in {CompareWrapped(v) : v \in SeqsUpTo(CompareValues, MaxCompareLen)}
    /\ dLast = [op |-> "new"]

\* the sort compares two of the items, in one order and in the other
CompareCall ==
    /\ dLast.op # "idle"
    /\ \E i, j \in 1..Len(dItems) :
          dLast' = [op |-> "compare", a |-> dItems[i], b |-> dItems[j],
                    ab |-> defaultCompare(dItems[i], dItems[j]),
                    ba |-> defaultCompare(dItems[j], dItems[i])]
    /\ UNCHANGED <<dItems, compareOthers>>

CompareNext == CompareCall

CompareIdle ==
    /\ dItems = <<>>
    /\ dLast = [op |-> "idle"]

----------------------------------------------------------------------------
(* ReactiveObject                                                          *)

\* an instance of VersionableMixin (another ReactiveObject, say) and its version
Versionable(ref, version) == [t |-> "versionable", ref |-> ref, version |-> version]

\* `value instanceof VersionableMixin`
InstanceOfVersionableMixin(value) == value.t = "versionable"

\* the plain values a property is given, and the values it can be assigned
ReactPlainValues == {Num(1), Num(2), NaN, Str("a"), Undefined, ObjA}

ReactValues ==
    ReactPlainValues \cup {Versionable(10 + v, v) : v \in 0..MaxNestedVersion}

ReactKeys == {"foo", "bar"}

\* value !== oldValue: NaN differs from everything, itself included
StrictNotEquals(a, b) == a = NaN \/ b = NaN \/ ~StrictEquals(a, b)

\* VersionableMixin._nextVersion(): the version counter moves on by one
VersionableMixin_nextVersion(version) == version + 1

\* VersionableMixin.getVersion(): the version counter
VersionableMixin_getVersion(version) == version

\* the setter of a data property, were every assignment to count
ReactiveObject_set_always(storage, version, key, value) ==
    [storage |-> [storage EXCEPT ![key] = value],
     version |-> VersionableMixin_nextVersion(version)]

\* the setter _proxyProperties defines for a writable data property (lines 284-291)
ReactiveObject_set(storage, version, key, value) ==
    LET oldValue == storage[key]
    IN  [storage |-> [storage EXCEPT ![key] = value],
         version |-> IF StrictNotEquals(value, oldValue)
                     THEN VersionableMixin_nextVersion(version)
                     ELSE version]

\* nestedVersions.get(key) || 0
LastVersion(nestedVersions, key) ==
    IF key \in DOMAIN nestedVersions THEN nestedVersions[key] ELSE 0

\* the keys getVersion() finds a changed nested instance under (lines 230-246)
ReactChangedNested(storage, nestedVersions) ==
    {key \in DOMAIN storage :
        /\ InstanceOfVersionableMixin(storage[key])
        /\ LastVersion(nestedVersions, key) # storage[key].version}

\* getVersion(): lines 228-249; every changed nested instance is noted and moves
\* the version on by one
ReactiveObject_getVersion(storage, version, nestedVersions) ==
    LET changed == ReactChangedNested(storage, nestedVersions)
        moved == version + Cardinality(changed)
    IN  [nestedVersions |->
            [key \in DOMAIN nestedVersions \cup changed |->
                IF key \in changed THEN storage[key].version ELSE nestedVersions[key]],
         version |-> moved,
         ret |-> VersionableMixin_getVersion(moved)]

\* new ReactiveObject(data): data has writable data properties with plain values
ReactInit ==
    /\ \E keys \in SUBSET ReactKeys : rStorage \in [keys -> ReactPlainValues]
    /\ rVersion = 0
    /\ rNestedVersions = <<>>
    /\ rLast = [op |-> "new"]
    /\ rSeen = rStorage

\* new ReactiveObject(data): the properties of data hold plain values or instances
\* of VersionableMixin, no instance more than once
ReactNestedInit ==
    /\ \E keys \in SUBSET ReactKeys : rStorage \in [keys -> ReactValues]
    /\ \A k1, k2 \in DOMAIN rStorage :
          (InstanceOfVersionableMixin(rStorage[k1]) /\ k1 # k2) => rStorage[k1] # rStorage[k2]
    /\ rVersion = 0
    /\ rNestedVersions = <<>>
    /\ rLast = [op |-> "new"]
    /\ rSeen = rStorage

\* the value is an instance in its present state: no property holds the same
\* instance with another version
ReactInstanceAsItIs(value) ==
    InstanceOfVersionableMixin(value) =>
        \A k \in DOMAIN rStorage :
            (InstanceOfVersionableMixin(rStorage[k]) /\ rStorage[k].ref = value.ref)
                => rStorage[k] = value

\* instance[key] = value
ReactAssign ==
    /\ rLast.op # "idle"
    /\ rVersion < MaxVersion
    /\ \E key \in DOMAIN rStorage, value \in ReactValues \cup {rStorage[k] : k \in DOMAIN rStorage} :
          LET r == ReactiveObject_set(rStorage, rVersion, key, value)
          IN  /\ ReactInstanceAsItIs(value)
              /\ rStorage' = r.storage
              /\ rVersion' = r.version
              /\ rLast' = [op |-> "set", key |-> key, value |-> value,
                           oldValue |-> rStorage[key],
                           before |-> ReactiveObject_getVersion(rStorage, rVersion,
                                                                rNestedVersions).ret]
    /\ UNCHANGED <<rNestedVersions, rSeen, reactOthers>>

\* instance.getVersion()
ReactGetVersion ==
    LET r == ReactiveObject_getVersion(rStorage, rVersion, rNestedVersions)
    IN  /\ rLast.op # "idle"
        /\ rVersion' = r.version
        /\ rNestedVersions' = r.nestedVersions
        /\ rLast' = [op |-> "getVersion", ret |-> r.ret, before |-> rVersion]
        /\ rSeen' = rStorage
        /\ UNCHANGED <<rStorage, reactOthers>>

\* an instance of VersionableMixin held by a property is modified: its own version
\* moves on by one
ReactNestedChange ==
    /\ rLast.op # "idle"
    /\ \E key \in DOMAIN rStorage :
          /\ InstanceOfVersionableMixin(rStorage[key])
          /\ rStorage[key].version < MaxNestedVersion
          /\ rStorage' =
                [k \in DOMAIN rStorage |->
                    IF InstanceOfVersionableMixin(rStorage[k]) /\ rStorage[k].ref = rStorage[key].ref
                    THEN [rStorage[k] EXCEPT !.version = VersionableMixin_nextVersion(@)]
                    ELSE rStorage[k]]
          /\ rLast' = [op |-> "nested", key |-> key]
    /\ UNCHANGED <<rVersion, rNestedVersions, rSeen, reactOthers>>

ReactNext == ReactAssign \/ ReactGetVersion

ReactNestedNext == ReactAssign \/ ReactGetVersion \/ ReactNestedChange

ReactIdle ==
    /\ rStorage = <<>>
    /\ rVersion = 0
    /\ rNestedVersions = <<>>
    /\ rLast = [op |-> "idle"]
    /\ rSeen = <<>>

----------------------------------------------------------------------------
(* logger.stack                                                            *)

\* the messages reported, and the texts stack.slice(at).join('\n').trim() gives
\* for the call points and offsets of the model: "" where the offset reaches past
\* the last frame
LogMessages == {"a", "ab", "__proto__", "hasOwnProperty"}

LogCallStacks == {"", "b"}

LogLevels == {"info", "error"}

\* one (message, call stack) pair
LogPair(message, callStack) == [message |-> message, callStack |-> callStack]

LogPairs == {LogPair(m, c) : m \in LogMessages, c \in LogCallStacks}

\* hash = message + callStack  (line 79)
LogHash(message, callStack) == message \o callStack

\* stackPoints.hasOwnProperty(hash), line 80: the call itself fails once the
\* object has an own property of that name, whose value is true
StackPoints_hasOwnProperty(stackPoints, hash) ==
    IF "hasOwnProperty" \in stackPoints THEN "throw"
    ELSE IF hash \in stackPoints THEN "true" ELSE "false"

\* stackPoints[hash] = true, line 83: the name __proto__ goes to the setter of
\* Object.prototype, which drops a value that is no object
StackPoints_set(stackPoints, hash) ==
    IF hash = "__proto__" THEN stackPoints ELSE stackPoints \cup {hash}

\* stack(message, offset, level): lines 61-87; hasStack is `'stack' in error`, and
\* the outcome tells whether the ILogger got the pair, the call returned at line 81
\* or it raised a TypeError
logger_stack(stackPoints, message, callStack, hasStack) ==
    IF ~hasStack
    THEN [stackPoints |-> stackPoints, outcome |-> "logged", logged |-> LogPair(message, "")]
    ELSE LET hash == LogHash(message, callStack)
             seen == StackPoints_hasOwnProperty(stackPoints, hash)
         IN  CASE seen = "throw" ->
                    [stackPoints |-> stackPoints, outcome |-> "throw",
                     logged |-> LogPair(message, callStack)]
               [] seen = "true" ->
                    [stackPoints |-> stackPoints, outcome |-> "returned",
                     logged |-> LogPair(message, callStack)]
               [] seen = "false" ->
                    [stackPoints |-> StackPoints_set(stackPoints, hash),
                     outcome |-> "logged", logged |-> LogPair(message, callStack)]

\* the module is loaded: no point is known; whether an Error carries its stack
\* when it is made is up to the engine
LogInit ==
    /\ lHasStack \in BOOLEAN
    /\ lStackPoints = {}
    /\ lReported = <<>>
    /\ lLogged = [p \in LogPairs |-> 0]
    /\ lLast = [op |-> "load"]

\* logger.stack(message, offset, level) from some call point
LogStack ==
    /\ lLast.op # "idle"
    /\ \E message \in LogMessages, callStack \in LogCallStacks, level \in LogLevels :
          LET r == logger_stack(lStackPoints, message, callStack, lHasStack)
              pair == r.logged
          IN  /\ Len(lReported) < MaxReports
              /\ lStackPoints' = r.stackPoints
              /\ lReported' = Append(lReported, pair)
              /\ lLogged' = IF r.outcome = "logged"
                            THEN [lLogged EXCEPT ![pair] = @ + 1]
                            ELSE lLogged
              /\ lLast' = [op |-> "stack", pair |-> pair, level |-> level,
                           outcome |-> r.outcome]
    /\ UNCHANGED <<lHasStack, loggerOthers>>

LoggerNext == LogStack

LoggerIdle ==
    /\ lHasStack = FALSE
    /\ lStackPoints = {}
    /\ lReported = <<>>
    /\ lLogged = <<>>
    /\ lLast = [op |-> "idle"]

----------------------------------------------------------------------------
(* isEqual                                                                 *)

\* a slot of an array that holds no element: [ , ] has one
Hole == [t |-> "hole"]

\* an array, and an object literal with its properties in the order of creation;
\* ref tells one instance from another
EqualArray(ref, items) == [t |-> "array", ref |-> ref, items |-> items]

EqualObject(ref, props) == [t |-> "object", ref |-> ref, props |-> props]

\* Object.prototype.valueOf, which every object literal inherits
ObjectPrototypeValueOf == [t |-> "function", ref |-> 0]

EqualPrimitives == {Num(1), Str("1"), NaN, Undefined}

EqualKeys == {"a", "b", "valueOf"}

\* how many slots and properties a value holds, at any depth
RECURSIVE EqualSize(_)
EqualSize(v) ==
    LET RECURSIVE Sum(_, _)
        Sum(s, i) == IF i > Len(s) THEN 0 ELSE 1 + EqualSize(s[i]) + Sum(s, i + 1)
    IN  CASE v.t = "array" -> Sum(v.items, 1)
          [] v.t = "object" -> Sum([k \in 1..Len(v.props) |-> v.props[k].value], 1)
          [] OTHER -> 0

RECURSIVE EqualValuesAt(_, _, _)
\* the values of at most n slots and properties, no container deeper than depth;
\* every container below the top is an instance of its own, numbered by nested
EqualValuesAt(n, depth, nested) ==
    IF depth = 0 \/ n = 0
    THEN EqualPrimitives
            \cup (IF depth = 0 THEN {} ELSE {EqualArray(nested, <<>>), EqualObject(nested, <<>>)})
    ELSE LET inner == EqualValuesAt(n - 1, depth - 1, nested)
             items == {s \in SeqsUpTo(inner \cup {Hole}, MaxEqualLen) :
                           EqualSize(EqualArray(0, s)) <= n}
             props == {s \in SeqsUpTo({Property(k, v) : k \in EqualKeys, v \in inner},
                                      MaxEqualLen) :
                           /\ \A i, j \in 1..Len(s) : i # j => s[i].key # s[j].key
                           /\ EqualSize(EqualObject(0, s)) <= n}
         IN  EqualPrimitives
                \cup {EqualArray(nested, s) : s \in items}
                \cup {EqualObject(nested, s) : s \in props}

\* the same value as the instance numbered ref
EqualInstance(v, ref) == IF v.t \in {"array", "object"} THEN [v EXCEPT !.ref = ref] ELSE v

\* arr[index] (index from 0): undefined past the end and at a hole
EqualArrayGet(arr, index) ==
    IF index + 1 > Len(arr.items) \/ arr.items[index + 1] = Hole
    THEN Undefined
    ELSE arr.items[index + 1]

\* obj has an own property key
EqualHasOwn(obj, key) == \E k \in 1..Len(obj.props) : obj.props[k].key = key

\* obj[key]: the own property, else what Object.prototype holds under the name
EqualObjectGet(obj, key) ==
    IF EqualHasOwn(obj, key)
    THEN obj.props[CHOOSE k \in 1..Len(obj.props) : obj.props[k].key = key].value
    ELSE IF key = "valueOf" THEN ObjectPrototypeValueOf ELSE Undefined

\* obj1 === obj2
EqualStrictEquals(obj1, obj2) == ~StrictNotEquals(obj1, obj2)

\* the place of a key in the order of keys.sort()
EqualKeyRank(key) == CASE key = "a" -> 1 [] key = "b" -> 2 [] key = "valueOf" -> 3

RECURSIVE EqualSortKeys(_)
\* Object.keys(obj) after sort(): lines 27-28 and 34-35
EqualSortKeys(keys) ==
    IF keys = {} THEN <<>>
    ELSE LET first == CHOOSE k \in keys : \A o \in keys : EqualKeyRank(k) <= EqualKeyRank(o)
         IN  <<first>> \o EqualSortKeys(keys \ {first})

EqualObjectKeys(obj) == EqualSortKeys({obj.props[k].key : k \in 1..Len(obj.props)})

\* isTraversable(value): lines 3-14; the objects of the model are object literals
isTraversable(value) == value.t = "object"

RECURSIVE isEqual(_, _)
RECURSIVE isEqualArrays_some(_, _, _)
RECURSIVE isEqualObjects_some(_, _, _, _, _)

\* lines 21-23: arr1.some(...) from slot index on; some() passes over the holes of
\* arr1. The answer is that of isEqualArrays: "true", "false" or "TypeError"
isEqualArrays_some(arr1, arr2, index) ==
    IF index >= Len(arr1.items) THEN "true"
    ELSE IF arr1.items[index + 1] = Hole THEN isEqualArrays_some(arr1, arr2, index + 1)
    ELSE LET r == isEqual(arr1.items[index + 1], EqualArrayGet(arr2, index))
         IN  IF r = "true" THEN isEqualArrays_some(arr1, arr2, index + 1) ELSE r

\* isEqualArrays(arr1, arr2): lines 16-24
isEqualArrays(arr1, arr2) ==
    IF Len(arr1.items) # Len(arr2.items) THEN "false"
    ELSE isEqualArrays_some(arr1, arr2, 0)

\* lines 37-39: keys1.some(...) from place index (from 1) on
isEqualObjects_some(obj1, obj2, keys1, keys2, index) ==
    IF index > Len(keys1) THEN "true"
    ELSE IF keys2[index] # keys1[index] THEN "false"
    ELSE LET r == isEqual(EqualObjectGet(obj1, keys1[index]),
                          EqualObjectGet(obj2, keys1[index]))
         IN  IF r = "true" THEN isEqualObjects_some(obj1, obj2, keys1, keys2, index + 1)
             ELSE r

\* isEqualObjects(obj1, obj2): lines 26-43; two object literals have one prototype
isEqualObjects(obj1, obj2) ==
    LET keys1 == EqualObjectKeys(obj1)
        keys2 == EqualObjectKeys(obj2)
    IN  IF Len(keys1) # Len(keys2) THEN "false"
        ELSE IF Len(keys1) > 0 THEN isEqualObjects_some(obj1, obj2, keys1, keys2, 1)
        ELSE "true"

\* isEqual(obj1, obj2): lines 76-112. valueOf() of an object literal gives the
\* object; a valueOf that is no function cannot be called. No value of the model
\* carries '[Types/_entity/IEquatable]'
isEqual(obj1, obj2) ==
    IF EqualStrictEquals(obj1, obj2) THEN "true"
    ELSE IF (obj1.t = "array") # (obj2.t = "array") THEN "false"
    ELSE IF obj1.t = "array" THEN isEqualArrays(obj1, obj2)
    ELSE IF isTraversable(obj1) /\ isTraversable(obj2)
    THEN LET valueOf1 == EqualObjectGet(obj1, "valueOf")
             valueOf2 == EqualObjectGet(obj2, "valueOf")
         IN  IF Truthy(valueOf1) /\ valueOf1 # NaN /\ EqualStrictEquals(valueOf1, valueOf2)
             THEN IF valueOf1.t = "function" THEN isEqualObjects(obj1, obj2)
                  ELSE "TypeError"
             ELSE isEqualObjects(obj1, obj2)
    ELSE "false"

\* the pairs isEqual is called with: two instances, or one instance twice
EqualInit ==
    /\ \E v \in EqualValuesAt(MaxEqualSize, MaxEqualDepth, 3) : eObj1 = EqualInstance(v, 1)
    /\ \E v \in EqualValuesAt(MaxEqualSize, MaxEqualDepth, 4) :
          eObj2 \in {EqualInstance(v, 2), eObj1}
    /\ eOut = "none"
    /\ eBack = "none"
    /\ eLast = [op |-> "values"]

\* isEqual(obj1, obj2), and isEqual(obj2, obj1) next to it
EqualCall ==
    /\ eLast.op = "values"
    /\ eOut' = isEqual(eObj1, eObj2)
    /\ eBack' = isEqual(eObj2, eObj1)
    /\ eLast' = [op |-> "isEqual"]
    /\ UNCHANGED <<eObj1, eObj2, equalOthers>>

EqualNext == EqualCall

EqualIdle ==
    /\ eObj1 = Undefined
    /\ eObj2 = Undefined
    /\ eOut = "none"
    /\ eBack = "none"
    /\ eLast = [op |-> "idle"]

-----------------------------------------------------------------------------
(* OptionsToPropertyMixin and SerializableMixin: instances of one class,   *)
(* built from options objects their caller keeps, read, serialized and     *)
(* rebuilt from their signatures.                                          *)

optionPrefix == "_$"

\* the instances a run serializes and rebuilds
MaxInstances == 3

\* the instances a run reads the options of
MaxOptionInstances == 1

\* an object used as a hash: props maps its own enumerable names to values
Hash(props) == [t |-> "hash", props |-> props]

\* getMergeableProperty(value): the hash, marked as mergeable
getMergeableProperty(value) == [t |-> "hash", props |-> value.props, mergeable |-> TRUE]

\* the object with one more own property, or with another value of one it has
WithProperty(props, name, value) ==
    [n \in DOMAIN props \cup {name} |-> IF n = name THEN value ELSE props[n]]

\* {...base, ...value}: the own enumerable properties of base, then those of value
\* over them; a value that is no object adds none
ObjectSpread(base, value) ==
    IF value.t = "hash"
    THEN Hash([n \in DOMAIN base.props \cup DOMAIN value.props |->
                  IF n \in DOMAIN value.props THEN value.props[n] ELSE base.props[n]])
    ELSE Hash(base.props)

\* object[name] of a hash: undefined when it has no such property
HashGet(object, name) ==
    IF object.t = "hash" /\ name \in DOMAIN object.props THEN object.props[name] ELSE Undefined

\* the values of options in use
OptionValues == {Num(1), Hash([x |-> Num(2)]), Hash([x |-> Num(2), y |-> Num(1)])}

OptionKeys == {"a", "b"}

\* what a caller passes to the constructor: nothing, or an object of options
EntityOptions ==
    {Undefined} \cup {Hash(props) : props \in UNION {[keys -> OptionValues] : keys \in SUBSET OptionKeys}}

\* the classes in use. own holds the properties of the class's prototype itself,
\* parent those it inherits; the class either mixes OptionsToPropertyMixin in or
\* is DateTime, which keeps its time
EntityPrototypes ==
    {[kind |-> "entity",
      own |-> ("_moduleName" :> Str("Sub")) @@ ("_$a" :> Num(2))
              @@ ("_options" :> Hash([c |-> Num(1)])),
      parent |-> ("_moduleName" :> Str("Base"))
                 @@ ("_$b" :> getMergeableProperty(Hash([x |-> Num(1), y |-> Num(1)])))],
     [kind |-> "entity",
      own |-> "_$a" :> getMergeableProperty(Hash([x |-> Num(1), y |-> Num(1)])),
      parent |-> "_moduleName" :> Str("Base")],
     [kind |-> "entity",
      own |-> "_$a" :> Num(2),
      parent |-> <<>>],
     [kind |-> "DateTime",
      own |-> "_moduleName" :> Str("Types/entity:DateTime"),
      parent |-> <<>>]}

DateTimes == {Num(0), Num(1234567890)}

\* `name in proto`
ProtoHas(proto, name) == name \in DOMAIN proto.own \/ name \in DOMAIN proto.parent

\* proto[name], looked up along the chain of prototypes
ProtoGet(proto, name) ==
    IF name \in DOMAIN proto.own THEN proto.own[name]
    ELSE IF name \in DOMAIN proto.parent THEN proto.parent[name]
    ELSE Undefined

\* proto[name] && proto[name][$mergeable]
isMergeable(proto, name) ==
    LET value == ProtoGet(proto, name)
    IN  Truthy(value) /\ value.t = "hash" /\ "mergeable" \in DOMAIN value /\ value.mergeable

\* the getter defineProperty installs, on its first and only call: the value is
\* read from the caller's object as it is now
defineProperty_get(proto, name, key, scope) ==
    IF isMergeable(proto, name)
    THEN ObjectSpread(ProtoGet(proto, name), HashGet(scope, key))
    ELSE HashGet(scope, key)

\* a constructor that installs an accessor for every key of options
OptionsToPropertyMixin_constructor_definingAll(proto, options) ==
    [lazy |-> IF proto.kind = "entity" /\ options.t = "hash" THEN DOMAIN options.props ELSE {},
     own |-> <<>>,
     time |-> IF proto.kind = "DateTime" THEN options ELSE Undefined,
     instanceNumber |-> Null,
     unserialized |-> FALSE]

\* new Class(options): an accessor for every key of options whose prefixed name is
\* in the instance; for DateTime the argument is the time
OptionsToPropertyMixin_constructor(proto, options) ==
    [lazy |-> IF proto.kind = "entity" /\ options.t = "hash"
              THEN {key \in DOMAIN options.props : ProtoHas(proto, optionPrefix \o key)}
              ELSE {},
     own |-> <<>>,
     time |-> IF proto.kind = "DateTime" THEN options ELSE Undefined,
     instanceNumber |-> Null,
     unserialized |-> FALSE]

\* instance[name]: the accessor computes the value and replaces itself with it
Instance_get(proto, instance, scope, name) ==
    IF \E key \in instance.lazy : optionPrefix \o key = name
    THEN LET key == CHOOSE k \in instance.lazy : optionPrefix \o k = name
             value == defineProperty_get(proto, name, key, scope)
         IN  [value |-> value,
              instance |-> [instance EXCEPT !.lazy = @ \ {key},
                                            !.own = WithProperty(@, name, value)]]
    ELSE [value |-> IF name \in DOMAIN instance.own THEN instance.own[name]
                    ELSE ProtoGet(proto, name),
          instance |-> instance]

\* the instance after each of its accessors has been read
RECURSIVE Instance_readAll(_, _, _)
Instance_readAll(proto, instance, scope) ==
    IF instance.lazy = {} THEN instance
    ELSE LET key == CHOOSE k \in instance.lazy : TRUE
         IN  Instance_readAll(proto, Instance_get(proto, instance, scope, optionPrefix \o key).instance, scope)

\* for a mergeable option, the part of the value that is not the prototype's
OptionsToPropertyMixin_notOriginal(value, original) ==
    Hash([propName \in {n \in DOMAIN value.props :
                            StrictNotEquals(value.props[n], HashGet(original, n))}
            |-> value.props[propName]])

\* _getOptions(): every own enumerable property with the prefix, under its name
\* without the prefix, and what _options holds under other names
OptionsToPropertyMixin_getOptions(proto, instance, scope) ==
    LET read == Instance_readAll(proto, instance, scope)
        names == DOMAIN read.own
        keyOf(name) == CHOOSE key \in OptionKeys : optionPrefix \o key = name
        options == [key \in {keyOf(name) : name \in names} |->
                       LET name == optionPrefix \o key
                       IN  IF isMergeable(proto, name)
                           THEN OptionsToPropertyMixin_notOriginal(read.own[name], ProtoGet(proto, name))
                           ELSE read.own[name]]
        old == ProtoGet(proto, "_options")
    IN  [options |->
            IF Truthy(old)
            THEN Hash([name \in DOMAIN options \cup DOMAIN old.props |->
                          IF name \in DOMAIN options THEN options[name] ELSE old.props[name]])
            ELSE Hash(options),
         instance |-> read]

\* DateTime keeps its time in the state
DateTime_getSerializableState(instance) == instance.time

\* _getSerializableState({}).$options
SerializableMixin_getSerializableState(proto, instance, scope) ==
    IF proto.kind = "DateTime"
    THEN [options |-> DateTime_getSerializableState(instance), instance |-> instance]
    ELSE OptionsToPropertyMixin_getOptions(proto, instance, scope)

\* a _checkModuleName() that is content with a name found anywhere on the chain
SerializableMixin_checkModuleName_lenient(proto, protoSupported) ==
    IF ~Truthy(ProtoGet(proto, "_moduleName")) THEN "ReferenceError" ELSE "ok"

\* _checkModuleName(true): whether it raises
SerializableMixin_checkModuleName(proto, protoSupported) ==
    IF ~Truthy(ProtoGet(proto, "_moduleName")) THEN "ReferenceError"
    ELSE IF ~protoSupported THEN "ok"
    ELSE IF "_moduleName" \notin DOMAIN proto.own THEN "ReferenceError"
    ELSE "ok"

\* a getInstanceId() that numbers the instance at every call
getInstanceId_renumbering(instance, counter) ==
    [id |-> Num(counter + 1),
     instance |-> [instance EXCEPT !.instanceNumber = Num(counter + 1)],
     counter |-> counter + 1]

\* getInstanceId.call(instance)
getInstanceId(instance, counter) ==
    IF Truthy(instance.instanceNumber)
    THEN [id |-> instance.instanceNumber, instance |-> instance, counter |-> counter]
    ELSE [id |-> Num(counter + 1),
          instance |-> [instance EXCEPT !.instanceNumber = Num(counter + 1)],
          counter |-> counter + 1]

\* instance.toJSON()
SerializableMixin_toJSON(proto, protoSupported, instance, scope, counter) ==
    IF SerializableMixin_checkModuleName(proto, protoSupported) = "ReferenceError"
    THEN [ret |-> [t |-> "ReferenceError"], instance |-> instance, counter |-> counter]
    ELSE LET numbered == getInstanceId(instance, counter)
             state == SerializableMixin_getSerializableState(proto, numbered.instance, scope)
         IN  [ret |-> [t |-> "signature",
                       serialized |-> "inst",
                       module |-> ProtoGet(proto, "_moduleName"),
                       id |-> numbered.id,
                       state |-> [options |-> state.options]],
              instance |-> state.instance,
              counter |-> numbered.counter]

\* a fromJSON() that passes the whole state to the constructor
SerializableMixin_fromJSON_passingState(proto, data) ==
    [OptionsToPropertyMixin_constructor(proto, Hash([options |-> data.state.options]))
        EXCEPT !.unserialized = TRUE]

\* Class.fromJSON(data): a new instance from data.state.$options, which the
\* initializer of _setSerializableState marks
SerializableMixin_fromJSON(proto, data) ==
    [OptionsToPropertyMixin_constructor(proto, data.state.options) EXCEPT !.unserialized = TRUE]

\* the module has been loaded: no instance yet
EntInit ==
    /\ entProto \in EntityPrototypes
    /\ entOptions \in IF entProto.kind = "DateTime" THEN DateTimes ELSE EntityOptions
    /\ isProtoSupported \in BOOLEAN
    /\ instanceCounter = 0
    /\ entInstances = <<>>
    /\ entScopes = <<>>
    /\ entGiven = <<>>
    /\ entLast = [op |-> "load"]

\* new Class(options), while the run has fewer than n instances
EntNewUpTo(n) ==
    /\ entLast.op # "idle"
    /\ Len(entInstances) < n
    /\ entInstances' = Append(entInstances, OptionsToPropertyMixin_constructor(entProto, entOptions))
    /\ entScopes' = Append(entScopes, entOptions)
    /\ entGiven' = Append(entGiven, entOptions)
    /\ entLast' = [op |-> "new", i |-> Len(entInstances) + 1]
    /\ UNCHANGED <<isProtoSupported, instanceCounter, entProto, entOptions, entOthers>>

EntNew == EntNewUpTo(MaxInstances)

EntNewWithOptions == EntNewUpTo(MaxOptionInstances)

\* instance._$key is read
EntRead ==
    /\ entProto.kind = "entity"
    /\ \E i \in 1..Len(entInstances), key \in OptionKeys :
          LET r == Instance_get(entProto, entInstances[i], entScopes[i], optionPrefix \o key)
          IN  /\ entInstances' = [entInstances EXCEPT ![i] = r.instance]
              /\ entLast' = [op |-> "read", i |-> i, key |-> key, value |-> r.value,
                             first |-> key \in entInstances[i].lazy]
    /\ UNCHANGED <<isProtoSupported, instanceCounter, entProto, entOptions, entScopes, entGiven, entOthers>>

\* the caller changes the object it passed as options: options[key] = 2
EntChangeOptions ==
    /\ \E i \in 1..Len(entInstances), key \in OptionKeys :
          /\ entScopes[i].t = "hash"
          /\ HashGet(entScopes[i], key) # Num(2)
          /\ entScopes' = [entScopes EXCEPT ![i] = Hash(WithProperty(@.props, key, Num(2)))]
          /\ entLast' = [op |-> "change", i |-> i, key |-> key]
    /\ UNCHANGED <<isProtoSupported, instanceCounter, entProto, entOptions, entInstances, entGiven, entOthers>>

\* instance.toJSON()
EntToJSON ==
    /\ \E i \in 1..Len(entInstances) :
          LET r == SerializableMixin_toJSON(entProto, isProtoSupported, entInstances[i],
                                            entScopes[i], instanceCounter)
          IN  /\ entInstances' = [entInstances EXCEPT ![i] = r.instance]
              /\ instanceCounter' = r.counter
              /\ entLast' = [op |-> "toJSON", i |-> i, ret |-> r.ret, counter |-> instanceCounter,
                             numbered |-> Truthy(entInstances[i].instanceNumber)]
    /\ UNCHANGED <<isProtoSupported, entProto, entOptions, entScopes, entGiven, entOthers>>

\* Class.fromJSON(data), data being the signature toJSON() has just returned
EntFromJSON ==
    /\ entLast.op = "toJSON"
    /\ entLast.ret.t = "signature"
    /\ Len(entInstances) < MaxInstances
    /\ entInstances' = Append(entInstances, SerializableMixin_fromJSON(entProto, entLast.ret))
    /\ entScopes' = Append(entScopes, entLast.ret.state.options)
    /\ entGiven' = Append(entGiven, entLast.ret.state.options)
    /\ entLast' = [op |-> "fromJSON", i |-> entLast.i, j |-> Len(entInstances) + 1, data |-> entLast.ret]
    /\ UNCHANGED <<isProtoSupported, instanceCounter, entProto, entOptions, entOthers>>

\* options passed, read and changed by the caller
EntOptionsNext == EntNewWithOptions \/ EntRead \/ EntChangeOptions

\* instances serialized and rebuilt
EntSerialNext == EntNew \/ EntToJSON \/ EntFromJSON

EntIdle ==
    /\ isProtoSupported = FALSE
    /\ instanceCounter = 0
    /\ entProto = [kind |-> "none"]
    /\ entOptions = Undefined
    /\ entInstances = <<>>
    /\ entScopes = <<>>
    /\ entGiven = <<>>
    /\ entLast = [op |-> "idle"]

-----------------------------------------------------------------------------
(* ManyToManyMixin: entities that keep their relationships in mediators    *)
(* and are destroyed along them.                                           *)

\* the entities with the mixin
MaxEntities == 2

\* the _addChild() calls of a run
MaxChildren == 3

\* the nested destroy() calls the call stack has room for
MaxStack == 5

Entities == 1..MaxEntities

\* an object that is no entity: it can be a child and has no destroy()
PlainChild == 0

\* a mediator is known by its number; no entity holding it, it is gone
Mediators == 1..MaxEntities

NoMediator == 0

\* new ManyToMany(): a mediator no entity holds, without relationships
ManyToManyMixin_createMediator(mediator) ==
    CHOOSE m \in Mediators :
        /\ \A e \in Entities : mediator[e] # m
        /\ \A n \in Mediators : (\A e \in Entities : mediator[e] # n) => m <= n

\* the mediators no entity holds any longer lose their relationships
Collected(mediator, relations) ==
    [m \in Mediators |-> IF \E e \in Entities : mediator[e] = m THEN relations[m] ELSE {}]

\* entity._getMediator(): the mediator the entity holds, a new one if it held none
ManyToManyMixin_getMediator(s, entity) ==
    IF s.mediator[entity] # NoMediator THEN s
    ELSE LET m == ManyToManyMixin_createMediator(s.mediator)
         IN  [s EXCEPT !.mediator[entity] = m, !.relations[m] = {}]

\* mediator.hasMany(master, callback): the children of master, each once for the
\* model, in the order of their numbers
RECURSIVE InOrder(_)
InOrder(set) ==
    IF set = {} THEN <<>>
    ELSE LET least == CHOOSE c \in set : \A d \in set : c <= d
         IN  <<least>> \o InOrder(set \ {least})

ManyToMany_hasMany(relations, master) ==
    InOrder({c \in Entities \cup {PlainChild} : <<master, c>> \in relations})

\* mediator.clear(master): master has no children in the mediator any longer
ManyToMany_clear(relations, master) == {r \in relations : r[1] # master}

\* a destroy() that destroys the children before it clears the relationships
RECURSIVE ManyToManyMixin_destroy_clearingLast(_, _, _)
ManyToManyMixin_destroy_clearingLast(s, entity, depth) ==
    IF depth > MaxStack \/ s.overflow THEN [s EXCEPT !.overflow = TRUE]
    ELSE LET got == ManyToManyMixin_getMediator(s, entity)
             m == got.mediator[entity]
             slaves == ManyToMany_hasMany(got.relations[m], entity)
             each[i \in 0..Len(slaves)] ==
                 IF i = 0 THEN got
                 ELSE IF slaves[i] = PlainChild THEN each[i - 1]
                 ELSE ManyToManyMixin_destroy_clearingLast(
                          [each[i - 1] EXCEPT !.calls = Append(@, slaves[i])], slaves[i], depth + 1)
             done == each[Len(slaves)]
         IN  [done EXCEPT !.relations[m] = ManyToMany_clear(@, entity),
                          !.mediator[entity] = NoMediator]

\* entity.destroy(), destroy() of the children included. s holds the mediator of
\* every entity, the relationships of every mediator, the destroy() calls made on
\* children and whether the call stack has overflowed
RECURSIVE ManyToManyMixin_destroy(_, _, _)
ManyToManyMixin_destroy(s, entity, depth) ==
    IF depth > MaxStack \/ s.overflow THEN [s EXCEPT !.overflow = TRUE]
    ELSE LET got == ManyToManyMixin_getMediator(s, entity)
             m == got.mediator[entity]
             slaves == ManyToMany_hasMany(got.relations[m], entity)
             cleared == [got EXCEPT !.relations[m] = ManyToMany_clear(@, entity)]
             each[i \in 0..Len(slaves)] ==
                 IF i = 0 THEN cleared
                 ELSE IF slaves[i] = PlainChild THEN each[i - 1]
                 ELSE ManyToManyMixin_destroy(
                          [each[i - 1] EXCEPT !.calls = Append(@, slaves[i])], slaves[i], depth + 1)
             done == each[Len(slaves)]
         IN  [done EXCEPT !.mediator[entity] = NoMediator]

\* parent._addChild(child): the relationship goes to the parent's mediator and, if
\* the child is an entity with another mediator or none, to the child's as well
ManyToManyMixin_addChild(s, parent, child) ==
    LET got == ManyToManyMixin_getMediator(s, parent)
        m == got.mediator[parent]
        added == [got EXCEPT !.relations[m] = @ \cup {<<parent, child>>}]
    IN  IF child \in Entities /\ added.mediator[child] # m
        THEN LET has == ManyToManyMixin_getMediator(added, child)
             IN  [has EXCEPT !.relations[has.mediator[child]] = @ \cup {<<parent, child>>}]
        ELSE added

\* the entities exist and have no relationships yet
MtmInit ==
    /\ mtmMediator = [e \in Entities |-> NoMediator]
    /\ mtmRelations = [m \in Mediators |-> {}]
    /\ mtmAdded = 0
    /\ mtmLast = [op |-> "new"]

\* parent._addChild(child)
MtmAddChild ==
    /\ mtmLast.op # "idle"
    /\ mtmAdded < MaxChildren
    /\ \E parent \in Entities, child \in Entities \cup {PlainChild} :
          LET s == ManyToManyMixin_addChild(
                       [mediator |-> mtmMediator, relations |-> mtmRelations,
                        calls |-> <<>>, overflow |-> FALSE], parent, child)
          IN  /\ mtmMediator' = s.mediator
              /\ mtmRelations' = s.relations
              /\ mtmLast' = [op |-> "addChild", parent |-> parent, child |-> child]
    /\ mtmAdded' = mtmAdded + 1
    /\ UNCHANGED mtmOthers

\* entity.destroy()
MtmDestroy ==
    /\ mtmLast.op # "idle"
    /\ \E entity \in Entities :
          LET before == [mediator |-> mtmMediator, relations |-> mtmRelations,
                         calls |-> <<>>, overflow |-> FALSE]
              got == ManyToManyMixin_getMediator(before, entity)
              m == got.mediator[entity]
              s == ManyToManyMixin_destroy(before, entity, 1)
          IN  /\ mtmMediator' = s.mediator
              /\ mtmRelations' = Collected(s.mediator, s.relations)
              /\ mtmLast' = [op |-> "destroy", entity |-> entity,
                             children |-> ManyToMany_hasMany(got.relations[m], entity),
                             calls |-> s.calls,
                             overflow |-> s.overflow,
                             left |-> s.relations[m]]
    /\ UNCHANGED <<mtmAdded, mtmOthers>>

MtmNext == MtmAddChild \/ MtmDestroy

MtmIdle ==
    /\ mtmMediator = <<>>
    /\ mtmRelations = <<>>
    /\ mtmAdded = 0
    /\ mtmLast = [op |-> "idle"]

----------------------------------------------------------------------------
(* Specifications: one per component, and one of the restartable cursors   *)
(* side by side.                                                           *)

InitUniq ==
    UniqInit /\ ZipIdle /\ SortIdle /\ FlatIdle /\ MapIdle /\ ObjIdle /\ FactoryIdle /\ TwinIdle /\ CompareIdle /\ ReactIdle /\ LoggerIdle /\ EqualIdle /\ EntIdle /\ MtmIdle

SpecUniq == InitUniq /\ [][UniqNext]_vars

InitZip ==
    ZipInit /\ UniqIdle /\ SortIdle /\ FlatIdle /\ MapIdle /\ ObjIdle /\ FactoryIdle /\ TwinIdle /\ CompareIdle /\ ReactIdle /\ LoggerIdle /\ EqualIdle /\ EntIdle /\ MtmIdle

SpecZip == InitZip /\ [][ZipNext]_vars

InitSort ==
    SortInit /\ UniqIdle /\ ZipIdle /\ FlatIdle /\ MapIdle /\ ObjIdle /\ FactoryIdle /\ TwinIdle /\ CompareIdle /\ ReactIdle /\ LoggerIdle /\ EqualIdle /\ EntIdle /\ MtmIdle

SpecSort == InitSort /\ [][SortNext]_vars

InitFlat ==
    FlatInit /\ UniqIdle /\ ZipIdle /\ SortIdle /\ MapIdle /\ ObjIdle /\ FactoryIdle /\ TwinIdle /\ CompareIdle /\ ReactIdle /\ LoggerIdle /\ EqualIdle /\ EntIdle /\ MtmIdle

SpecFlat == InitFlat /\ [][FlatNext]_vars

InitMap ==
    MapInit /\ UniqIdle /\ ZipIdle /\ SortIdle /\ FlatIdle /\ ObjIdle /\ FactoryIdle /\ TwinIdle /\ CompareIdle /\ ReactIdle /\ LoggerIdle /\ EqualIdle /\ EntIdle /\ MtmIdle

SpecMap == InitMap /\ [][MapNext]_vars

InitObj ==
    ObjInit /\ UniqIdle /\ ZipIdle /\ SortIdle /\ FlatIdle /\ MapIdle /\ FactoryIdle /\ TwinIdle /\ CompareIdle /\ ReactIdle /\ LoggerIdle /\ EqualIdle /\ EntIdle /\ MtmIdle

SpecObj == InitObj /\ [][ObjNext]_vars

InitFactory ==
    FactoryInit /\ UniqIdle /\ ZipIdle /\ SortIdle /\ FlatIdle /\ MapIdle /\ ObjIdle /\ TwinIdle /\ CompareIdle /\ ReactIdle /\ LoggerIdle /\ EqualIdle /\ EntIdle /\ MtmIdle

SpecFactory == InitFactory /\ [][FactoryNext]_vars

\* one cursor of the six kinds that restart is created; the others stay idle
InitCursors ==
    /\ MtmIdle
    /\ EntIdle
    /\ EqualIdle
    /\ LoggerIdle
    /\ ReactIdle
    /\ CompareIdle
    /\ TwinIdle
    /\ FactoryIdle
    /\ \/ MapInit /\ UniqIdle /\ ZipIdle /\ FlatIdle /\ ObjIdle /\ SortIdle
       \/ UniqInit /\ MapIdle /\ ZipIdle /\ FlatIdle /\ ObjIdle /\ SortIdle
       \/ /\ ZipInitUpTo(MaxPrimary, MaxRestartSecondaries)
          /\ MapIdle /\ UniqIdle /\ FlatIdle /\ ObjIdle /\ SortIdle
       \/ /\ FlatInitUpTo(MaxRestartNodes)
          /\ MapIdle /\ UniqIdle /\ ZipIdle /\ ObjIdle /\ SortIdle
       \/ ObjInit /\ MapIdle /\ UniqIdle /\ ZipIdle /\ FlatIdle /\ SortIdle
       \/ /\ SortInitUpTo(MaxRestartSortLen)
          /\ MapIdle /\ UniqIdle /\ ZipIdle /\ FlatIdle /\ ObjIdle

CursorsNext == MapNext \/ UniqNext \/ ZipNext \/ FlatNext \/ ObjNext \/ SortNext

SpecCursors == InitCursors /\ [][CursorsNext]_vars

\* two cursors of one class are obtained from the same link
InitTwins ==
    /\ MtmIdle
    /\ EntIdle
    /\ EqualIdle
    /\ LoggerIdle
    /\ ReactIdle
    /\ CompareIdle
    /\ SortIdle
    /\ ObjIdle
    /\ FactoryIdle
    /\ \/ MapInitUpTo(MaxTwinLen) /\ TwinInit("mapped") /\ UniqIdle /\ ZipIdle /\ FlatIdle
       \/ UniqInitUpTo(MaxTwinLen) /\ TwinInit("uniquely") /\ MapIdle /\ ZipIdle /\ FlatIdle
       \/ /\ ZipInitUpTo(MaxTwinLen, MaxTwinSecondaries) /\ TwinInit("zipped")
          /\ MapIdle /\ UniqIdle /\ FlatIdle
       \/ /\ FlatInitUpTo(MaxTwinNodes) /\ TwinInit("flattened")
          /\ MapIdle /\ UniqIdle /\ ZipIdle

TwinsNext == MapNext \/ UniqNext \/ ZipNext \/ FlatNext \/ TwinNext

SpecTwins == InitTwins /\ [][TwinsNext]_vars

InitCompare ==
    CompareInit /\ UniqIdle /\ ZipIdle /\ SortIdle /\ FlatIdle /\ MapIdle /\ ObjIdle /\ FactoryIdle /\ TwinIdle /\ ReactIdle /\ LoggerIdle /\ EqualIdle /\ EntIdle /\ MtmIdle

SpecCompare == InitCompare /\ [][CompareNext]_vars

InitReactive ==
    ReactInit /\ UniqIdle /\ ZipIdle /\ SortIdle /\ FlatIdle /\ MapIdle /\ ObjIdle /\ FactoryIdle /\ TwinIdle /\ CompareIdle /\ LoggerIdle /\ EqualIdle /\ EntIdle /\ MtmIdle

SpecReactive == InitReactive /\ [][ReactNext]_vars

\* a ReactiveObject whose properties may hold instances of VersionableMixin, which
\* are modified while it holds them
InitReactiveNested ==
    ReactNestedInit /\ UniqIdle /\ ZipIdle /\ SortIdle /\ FlatIdle /\ MapIdle /\ ObjIdle /\ FactoryIdle /\ TwinIdle /\ CompareIdle /\ LoggerIdle /\ EqualIdle /\ EntIdle /\ MtmIdle

SpecReactiveNested == InitReactiveNested /\ [][ReactNestedNext]_vars

InitLogger ==
    LogInit /\ UniqIdle /\ ZipIdle /\ SortIdle /\ FlatIdle /\ MapIdle /\ ObjIdle /\ FactoryIdle /\ TwinIdle /\ CompareIdle /\ ReactIdle /\ EqualIdle /\ EntIdle /\ MtmIdle

SpecLogger == InitLogger /\ [][LoggerNext]_vars

InitEqual ==
    EqualInit /\ UniqIdle /\ ZipIdle /\ SortIdle /\ FlatIdle /\ MapIdle /\ ObjIdle /\ FactoryIdle /\ TwinIdle /\ CompareIdle /\ ReactIdle /\ LoggerIdle /\ EntIdle /\ MtmIdle

SpecEqual == InitEqual /\ [][EqualNext]_vars

InitOptions ==
    EntInit /\ UniqIdle /\ ZipIdle /\ SortIdle /\ FlatIdle /\ MapIdle /\ ObjIdle /\ FactoryIdle /\ TwinIdle /\ CompareIdle /\ ReactIdle /\ LoggerIdle /\ EqualIdle /\ MtmIdle

SpecOptions == InitOptions /\ [][EntOptionsNext]_vars

InitSerial ==
    EntInit /\ UniqIdle /\ ZipIdle /\ SortIdle /\ FlatIdle /\ MapIdle /\ ObjIdle /\ FactoryIdle /\ TwinIdle /\ CompareIdle /\ ReactIdle /\ LoggerIdle /\ EqualIdle /\ MtmIdle

SpecSerial == InitSerial /\ [][EntSerialNext]_vars

InitRelations ==
    MtmInit /\ UniqIdle /\ ZipIdle /\ SortIdle /\ FlatIdle /\ MapIdle /\ ObjIdle /\ FactoryIdle /\ TwinIdle /\ CompareIdle /\ ReactIdle /\ LoggerIdle /\ EqualIdle /\ EntIdle

SpecRelations == InitRelations /\ [][MtmNext]_vars

----------------------------------------------------------------------------
(* Claims about UniquelyEnumerator, checked under SpecUniq.                *)

\* the key of upstream position j
uKeyAt(j) == UniquelyKey(uIdExtractor, uPrevious[j])

\* upstream position j was yielded by a moveNext() of this traversal
uYielded(j) == \E k \in 1..Len(uOut) : uOut[k].index = uPrevious[j].index

\* the positions the traversal has decided: yielded or skipped
uDecided == 1..uEnumerator

\* C1: without an id-extractor a primitive element is skipped exactly when an
\* earlier element is the same primitive value of the same type, so 1 and '1'
\* are both yielded.
C1_PrimitivesDedupedByTypedValue ==
    uIdExtractor = "none" =>
        \A j \in uDecided :
            ~InstanceOfObject(uPrevious[j].item) =>
                (~uYielded(j) <=> \E i \in 1..(j - 1) : uPrevious[i].item = uPrevious[j].item)

RECURSIVE uFirstOccurrences(_)
\* the (index, element) pairs of the first n upstream positions whose key is
\* not identical (===) to the key of an earlier position, in upstream order
uFirstOccurrences(n) ==
    IF n = 0 THEN <<>>
    ELSE IF \E i \in 1..(n - 1) : StrictEquals(uKeyAt(i), uKeyAt(n))
         THEN uFirstOccurrences(n - 1)
         ELSE Append(uFirstOccurrences(n - 1), uPrevious[n])

\* C3: the traversal yields exactly the upstream elements whose key has not
\* occurred earlier, in upstream order, each with its upstream index; the first
\* element carrying any primitive key is always yielded.
C3_YieldsExactlyFirstOccurrences == uOut = uFirstOccurrences(uEnumerator)

----------------------------------------------------------------------------
(* Claims about ZippedEnumerator, checked under SpecZip.                   *)

\* argument i (from 1) is neither an array nor an enumerable
zUnsupported(i) == ~InstanceOfArray(zItems[i]) /\ ~IsEnumerable(zItems[i])

zHasUnsupported == \E i \in 1..Len(zItems) : zUnsupported(i)

\* the k-th element (k from 0) of a collection, undefined past its end
zNth(items, k) == IF k < Len(items) THEN items[k + 1] ELSE Undefined

\* the tuple [p_k, s1_k, ..., sm_k]
zTuple(k) ==
    Arr(<<zPrevious[k + 1].item>> \o [i \in 1..Len(zItems) |-> zNth(zItems[i].items, k)])

\* C4: the k-th yielded element has index k and is the tuple of the k-th primary
\* element and the k-th element of every secondary, in argument order, with
\* undefined for a secondary that has no k-th element.
C4_ZipYieldsPositionalTuples ==
    \A n \in 1..Len(zOut) :
        /\ zOut[n].index = n - 1
        /\ zOut[n].item = zTuple(n - 1)
        /\ Len(zOut[n].item.items) = 1 + Len(zItems)

\* C4 witness: zip of 3 primary elements with an array of 2, all three tuples
\* yielded, the last one padded with undefined.
C4_Witness ==
    /\ Len(zOut) = 3
    /\ \E i \in 1..Len(zItems) :
          /\ InstanceOfArray(zItems[i]) /\ Len(zItems[i].items) = 2
          /\ zOut[2].item.items[i + 1] = zItems[i].items[2]
          /\ zOut[3].item.items[i + 1] = Undefined
    /\ \E i \in 1..Len(zItems) : IsEnumerable(zItems[i])

\* the times the primary cursor of this traversal has returned true
zPrimaryTrue == IF zEnumerator = Null THEN 0 ELSE zEnumerator.pos

\* C5: with secondaries of any lengths, moveNext() has returned true exactly as
\* often as the primary cursor has, and it returns false only when the primary
\* is exhausted.
C5_ZipEndsWithPrimary ==
    ~zHasUnsupported =>
        /\ Len(zOut) = zPrimaryTrue
        /\ (zLast.op = "moveNext" /\ zLast.ret = "false") => Len(zOut) = Len(zPrevious)

\* C5 witness: an exhausted zip whose secondaries are one shorter and one longer
\* than the primary.
C5_Witness ==
    /\ zLast.op = "moveNext" /\ zLast.ret = "false"
    /\ Len(zPrevious) >= 2
    /\ Len(zOut) = Len(zPrevious)
    /\ \E i \in 1..Len(zItems) : ~zUnsupported(i) /\ Len(zItems[i].items) < Len(zPrevious)
    /\ \E i \in 1..Len(zItems) : ~zUnsupported(i) /\ Len(zItems[i].items) > Len(zPrevious)

\* C6 as stated: a secondary that is neither array nor enumerable makes the
\* construction fail, so no cursor over such arguments ever exists.
C6_UnsupportedArgumentFailsConstruction ==
    (zPhase # "new" /\ zHasUnsupported) => zPhase = "failed"

\* the first argument position (from 0) that is neither array nor enumerable
zFirstUnsupported ==
    (CHOOSE i \in 1..Len(zItems) : zUnsupported(i) /\ \A j \in 1..(i - 1) : ~zUnsupported(j)) - 1

\* C6 amended: construction raises nothing; the error, naming the first offending
\* argument position, is raised by exactly those moveNext() calls at which the
\* primary cursor yields an element.
C6_UnsupportedArgumentFailsMoveNext ==
    /\ zLast.op = "construct" => (zLast.ret = "ok" /\ zPhase = "ready")
    /\ zLast.op = "moveNext" =>
          /\ zLast.ret = "throw" <=> (zHasUnsupported /\ zLast.hasNext)
          /\ zLast.ret = "throw" => zLast.error = TypeError(zFirstUnsupported)

\* C6 witness: a moveNext() raised the error for an argument after the first.
C6_Witness ==
    /\ zLast.op = "moveNext" /\ zLast.ret = "throw"
    /\ zLast.error = TypeError(1)
    /\ zOut = <<>>

----------------------------------------------------------------------------
(* Claims about SortedEnumerator, checked under SpecSort.                  *)

\* the sorted items, once _getItems() has built them
sSorted == IF sItems = Null THEN <<>> ELSE sItems.items

\* the place in the sorted items of the element that was upstream at position p
sPlaceOf(p) == CHOOSE n \in 1..Len(sSorted) : sSorted[n].item.ref = sPrevious[p].item.ref

\* the comparator's answer for the upstream elements at positions p and q
sCompared(p, q) ==
    compareFunction(sCompareFunction,
                    SortWrapper(sPrevious[p].item, sPrevious[p].index),
                    SortWrapper(sPrevious[q].item, sPrevious[q].index))

\* two elements the comparator answers 0 for keep their upstream order
sTiesKeepOrder ==
    sItems # Null =>
        \A p, q \in 1..Len(sPrevious) :
            (p < q /\ sCompared(p, q) = 0) => sPlaceOf(p) < sPlaceOf(q)

\* the comparator is a consistent comparison function for the upstream elements
sConsistent ==
    ConsistentComparator(sCompareFunction,
        [p \in 1..Len(sPrevious) |-> SortWrapper(sPrevious[p].item, sPrevious[p].index)])

C8_SortedIndices ==
    sItems # Null =>
        /\ Len(sSorted) = Len(sPrevious)
        /\ \A p \in 1..Len(sPrevious) : \E n \in 1..Len(sSorted) :
              sSorted[n].item = sPrevious[p].item
        /\ \A n \in 1..Len(sSorted) :
              IF sShouldSaveIndices
              THEN \E p \in 1..Len(sPrevious) : sSorted[n] = sPrevious[p]
              ELSE sSorted[n].index = Num(n - 1)
        /\ \A n \in 1..Len(sOut) : sOut[n] = sSorted[n]

\* C8 witness: a sort that moved an element, traversed to its end, once with the
\* upstream keys kept and once renumbered.
C8_Witness ==
    /\ sItems # Null
    /\ Len(sOut) = 3
    /\ sOut[1].item = sPrevious[3].item
    /\ sPrevious[3].index = Str("k2")
    /\ sOut[1].index = IF sShouldSaveIndices THEN Str("k2") ELSE Num(0)

----------------------------------------------------------------------------
(* Claims about FlattenedEnumerator, checked under SpecFlat.               *)

RECURSIVE fAtoms(_)
\* the atomic elements of a sequence of elements, depth-first and left to right
fAtoms(values) ==
    IF values = <<>> THEN <<>>
    ELSE LET first == values[1]
             rest == fAtoms(SubSeq(values, 2, Len(values)))
         IN  IF IsContainer(first) THEN fAtoms(first.items) \o rest ELSE <<first>> \o rest

fUpstreamAtoms == fAtoms([p \in 1..Len(fPrevious) |-> fPrevious[p].item])

\* the deepest nesting of a sequence of elements: 1 for atoms only
RECURSIVE fDepth(_)
fDepth(values) ==
    IF values = <<>> THEN 1
    ELSE LET first == values[1]
             rest == fDepth(SubSeq(values, 2, Len(values)))
             here == IF IsContainer(first) THEN 1 + fDepth(first.items) ELSE 1
         IN  IF here > rest THEN here ELSE rest

\* C9: the traversal yields, depth-first and left to right, exactly the atomic
\* elements of the nested upstream, with indices 0, 1, 2, ..., and never a
\* container.
C9_FlattenYieldsAtomsDepthFirst ==
    /\ Len(fOut) <= Len(fUpstreamAtoms)
    /\ \A n \in 1..Len(fOut) :
          /\ fOut[n] = Pair(n - 1, fUpstreamAtoms[n])
          /\ ~IsContainer(fOut[n].item)
    /\ (fLast.op = "moveNext" /\ ~fLast.ret) => Len(fOut) = Len(fUpstreamAtoms)

\* C9 witness: an upstream of the shape [a, [b, [c]], d], flattened to its end.
C9_Witness ==
    /\ fLast.op = "moveNext" /\ ~fLast.ret
    /\ Len(fPrevious) = 3
    /\ ~IsContainer(fPrevious[1].item)
    /\ IsContainer(fPrevious[2].item)
    /\ Len(fPrevious[2].item.items) = 2
    /\ IsContainer(fPrevious[2].item.items[2])
    /\ ~IsContainer(fPrevious[3].item)
    /\ Len(fOut) = 4
    /\ fOut[3].item = fPrevious[2].item.items[2].items[1]
    /\ fOut[4] = Pair(3, fPrevious[3].item)

\* C10: getCurrentIndex() is the number of moveNext() calls that returned true
\* since creation or the last reset(), less one: -1 before the first, and left
\* alone by a moveNext() that returns false.
C10_FlatIndexCountsYields ==
    /\ FlattenedEnumerator_getCurrentIndex(fIndex) = Len(fOut) - 1
    /\ fLast.op \in {"new", "reset"} => FlattenedEnumerator_getCurrentIndex(fIndex) = -1

\* C10 witness: an exhausted traversal of a keyed upstream nested three deep that
\* yielded at least three elements.
C10_Witness ==
    /\ fLast.op = "moveNext" /\ ~fLast.ret
    /\ Len(fOut) >= 3
    /\ fIndex = Len(fOut) - 1
    /\ fDepth([p \in 1..Len(fPrevious) |-> fPrevious[p].item]) >= 3
    /\ fPrevious[1].index = Str("k0")

----------------------------------------------------------------------------
(* Claims about MappedEnumerator, checked under SpecMap.                   *)

\* the upstream elements the cursor has taken since it was created or reset
mTaken == 1..mEnumerator

\* what the callback makes of the k-th upstream element
mMapped(k) == callback(mCallback, mPrevious[k].item, mPrevious[k].index)

\* the last moveNext() found the upstream at its end
mExhausted == mLast.op = "moveNext" /\ ~mLast.ret

\* C11: a Mapped traversal yields, for the upstream elements in their order, the
\* upstream index unchanged beside the callback's result for that element and index;
\* it yields as many elements as the upstream, and the callback has been called exactly
\* once for every element taken, getCurrent() calling it no further time.
C11_MappedYieldsCallbackResults ==
    /\ Len(mOut) = mEnumerator
    /\ \A k \in 1..Len(mOut) : mOut[k] = Pair(mPrevious[k].index, mMapped(k))
    /\ mCalls = [k \in mTaken |-> Invocation(mPrevious[k].item, mPrevious[k].index)]
    /\ mExhausted => Len(mOut) = Len(mPrevious)

\* a keyed upstream of three elements has been mapped to its end, and getCurrent()
\* has returned the last result
C11_Witness ==
    /\ mExhausted
    /\ Len(mOut) = 3
    /\ mCallback = "double"
    /\ mPrevious[1].index = Str("k0")
    /\ mGot = Num(2 * mPrevious[3].item.n)

----------------------------------------------------------------------------
(* Claims about the Objectwise cursor, checked under SpecObj.              *)

\* the entries of the object the cursor walks, own keys in the object's iteration order
oEntries ==
    LET keys == ObjectKeys(oItems)
    IN  [j \in 1..Len(keys) |-> Pair(Str(keys[j]), Get(oItems, keys[j]))]

\* the filter installed lets the entry pass
oAccepts(entry) == oFilter = "none" \/ filter(oFilter, entry.item, entry.index)

\* the last moveNext() returned false
oExhausted == oLast.op = "moveNext" /\ ~oLast.ret

\* C12: without a filter, over an object with n own keys, the j-th moveNext() that
\* returns true leaves the j-th key in iteration order as getCurrentIndex(), a string,
\* and the value stored under it as getCurrent(); moveNext() returns true n times.
C12_ObjectwiseYieldsOwnEntries ==
    (oPhase = "ready" /\ oFilter = "none" /\ oFiltered) =>
        /\ Len(oOut) = oIndex + 1
        /\ Len(oOut) <= Len(oEntries)
        /\ \A j \in 1..Len(oOut) : oOut[j] = oEntries[j]
        /\ oExhausted => Len(oOut) = Len(oEntries)

\* an object whose numeric key was created after a named one has been walked to its end
C12_Witness ==
    /\ oPhase = "ready" /\ oFilter = "none" /\ oFiltered
    /\ oExhausted
    /\ Len(oOut) = 3
    /\ oArgument.t = "object"
    /\ oArgument.props[1].key = "b"
    /\ oOut[1] = Pair(Str("1"), Num(2))
    /\ oOut[2] = Pair(Str("b"), Num(1))

\* C13: with a filter installed before the traversal began, the entries yielded are
\* exactly the entries passed so far that the filter accepts, in key order and each once;
\* a rejected entry is passed over within moveNext(), and at the end as many true
\* results have been returned as there are accepted entries.
C13_FilterYieldsAcceptedEntries ==
    (oPhase = "ready" /\ oFilter # "none" /\ oFiltered) =>
        /\ oOut = SelectSeq(SubSeq(oEntries, 1, oIndex + 1), oAccepts)
        /\ oLast.op = "moveNext" /\ oLast.ret => oAccepts(oEntries[oIndex + 1])
        /\ oExhausted => oOut = SelectSeq(oEntries, oAccepts)

\* a traversal under the filter "odd" has ended after skipping the entry between two
\* accepted ones
C13_Witness ==
    /\ oPhase = "ready" /\ oFilter = "odd" /\ oFiltered
    /\ oExhausted
    /\ Len(oEntries) = 3
    /\ Len(oOut) = 2
    /\ oOut[1] = oEntries[1]
    /\ oOut[2] = oEntries[3]
    /\ ~oAccepts(oEntries[2])

\* the constructor has run
oConstructed == oPhase \in {"ready", "failed"}

\* the constructor's argument is not an object of the language
oNonObject == oArgument.t \notin ObjectTypes

\* C17 as stated: constructing the cursor over any value that is not an object, undefined
\* included, raises an error and creates no cursor.
C17_NonObjectFailsConstruction ==
    (oConstructed /\ oNonObject) => (oPhase = "failed" /\ oItems = Null)

\* C17, amended: constructing the cursor over a value that is neither an object nor
\* undefined raises an error and creates no cursor; over undefined it raises nothing and
\* creates a cursor over an empty object, which yields no entry.
C17_NonObjectButUndefinedFailsConstruction ==
    /\ (oConstructed /\ oNonObject /\ oArgument # Undefined) =>
           (oPhase = "failed" /\ oItems = Null)
    /\ (oConstructed /\ oArgument = Undefined) =>
           (oPhase = "ready" /\ oItems = PlainObject(<<>>) /\ oKeys = <<>> /\ oOut = <<>>)
    /\ oLast.op = "construct" =>
           (oPhase = "failed" <=>
               oLast.error = Error("Argument items should be an instance of Object"))

\* the constructor has refused null
C17_Witness ==
    /\ oArgument = Null
    /\ oPhase = "failed"
    /\ oLast.op = "construct"
    /\ oLast.error = Error("Argument items should be an instance of Object")

----------------------------------------------------------------------------
(* Claims about factory, checked under SpecFactory.                        *)

\* factory has been called
facCalled == facLast.op \in {"call", "again"}

\* the source is an object of the language
facIsObject == facSource.t \in ObjectTypes

\* the source is an object whose enumerable marker is set
facIsEnumerable == facIsObject /\ facSource.marked

\* the call returned a new link of this kind around the source
facWrappedAs(kind) ==
    /\ facResult # Null
    /\ facResult.t = "link"
    /\ facResult.kind = kind
    /\ facResult.source = facSource
    /\ facResult.ref = facLast.created + 1

\* C14: every input is handled by the first rule it matches: a link is returned as it
\* is, otherwise an enumerable gets the Enumerable adapter, otherwise an array gets the
\* Arraywise adapter, otherwise any other object gets the Objectwise adapter.
C14_FactoryClassifiesByFirstRule ==
    facCalled =>
        IF InstanceOfAbstract(facSource) THEN facResult = facSource
        ELSE IF facIsEnumerable THEN facWrappedAs("Enumerable")
        ELSE IF InstanceOfArray(facSource) THEN facWrappedAs("Arraywise")
        ELSE IF facIsObject THEN facWrappedAs("Objectwise")
        ELSE TRUE

\* C15: given a link, factory returns that very link and creates none, so that factory
\* applied to what factory returned returns it again.
C15_FactoryIdempotent ==
    (facCalled /\ InstanceOfAbstract(facSource)) =>
        /\ facResult = facSource
        /\ facError = NoError
        /\ facCreated = facLast.created

\* factory has been given the Objectwise link it had created for a plain object
C15_Witness ==
    /\ facLast.op = "again"
    /\ facResult.kind = "Objectwise"
    /\ facResult.ref >= 1
    /\ facResult.source = SourceObject("object", FALSE)

\* C16: factory raises the unsupported-source error and returns no link for exactly the
\* inputs that are no link, no enumerable, no array and no object; for every other input
\* it returns a link and raises nothing.
C16_FactoryFailsOnNonObjectsOnly ==
    facCalled =>
        IF ~InstanceOfAbstract(facSource) /\ ~facIsEnumerable
               /\ ~InstanceOfArray(facSource) /\ ~facIsObject
        THEN facError = UnsupportedSourceType /\ facResult = Null
        ELSE facError = NoError /\ facResult # Null /\ facResult.t = "link"

----------------------------------------------------------------------------
(* Claims about the restartable cursors, checked under SpecCursors.        *)

\* C18: creating or resetting a Mapped, Uniquely, Zipped or Flattened cursor calls
\* moveNext() on no upstream or secondary cursor, reads no element and calls no map
\* function or id-extractor: the cursor holds no element, no result of a callback and no
\* advanced cursor; the first read is made by the first moveNext().
C18_CreationAndResetReadNothing ==
    /\ mLast.op \in {"new", "reset"} =>
           (mReads = 0 /\ mCalls = <<>> /\ mEnumerator = 0 /\ mCurrent = Undefined)
    /\ uLast.op \in {"new", "reset"} =>
           (uReads = 0 /\ uEnumerator = 0 /\ uKeysHash = {} /\ uObjectsHash = <<>>)
    /\ zLast.op \in {"construct", "reset"} =>
           /\ zReads = 0
           /\ zEnumerator = Null
           /\ zCurrent = Undefined
           /\ \A i \in 1..Len(zItemsEnumerators) : zItemsEnumerators[i] = Null
    /\ fLast.op \in {"new", "reset"} => (fReads = 0 /\ fMover = Null)
    /\ mLast.op = "moveNext" => mReads >= 1
    /\ uLast.op = "moveNext" => uReads >= 1
    /\ zLast.op = "moveNext" => zReads >= 1
    /\ fLast.op = "moveNext" => fReads >= 1

\* a Mapped cursor that had yielded two elements has just been reset
C18_Witness ==
    /\ mLast.op = "reset"
    /\ mRestarted
    /\ Len(mPrevious) >= 2
    /\ mCallback = "double"
    /\ mReads = 0

\* a is the beginning of b
IsPrefix(a, b) == Len(a) <= Len(b) /\ SubSeq(b, 1, Len(a)) = a

RECURSIVE mTraverse(_, _, _)
\* what moveNext() yields from the given fields on, appended to out, until it returns false
mTraverse(enumerator, current, out) ==
    LET r == MappedEnumerator_moveNext(enumerator, current)
    IN  IF ~r.ret THEN out
        ELSE mTraverse(r.enumerator, r.current,
                       Append(out, Pair(MappedEnumerator_getCurrentIndex(r.enumerator),
                                        r.current)))

RECURSIVE uTraverse(_, _, _, _)
uTraverse(enumerator, objectsHash, keysHash, out) ==
    LET r == UniquelyEnumerator_moveNext(enumerator, objectsHash, keysHash)
    IN  IF ~r.ret THEN out
        ELSE uTraverse(r.enumerator, r.objectsHash, r.keysHash,
                       Append(out, Pair(UniquelyEnumerator_getCurrentIndex(r.enumerator),
                                        UniquelyEnumerator_getCurrent(r.enumerator))))

RECURSIVE zTraverse(_, _, _, _, _)
zTraverse(enumerator, index, current, itemsEnumerators, out) ==
    LET r == ZippedEnumerator_moveNext(enumerator, index, current, itemsEnumerators)
    IN  IF ~r.ret THEN out
        ELSE zTraverse(r.enumerator, r.index, r.current, r.itemsEnumerators,
                       Append(out, Pair(r.index, r.current)))

RECURSIVE fTraverse(_, _, _)
fTraverse(mover, index, out) ==
    LET r == FlattenedEnumerator_moveNext(mover, index)
    IN  IF ~r.ret THEN out
        ELSE fTraverse(r.mover, r.index,
                       Append(out, Pair(FlattenedEnumerator_getCurrentIndex(r.index),
                                        FlattenedEnumerator_getCurrent(r.mover))))

RECURSIVE oTraverse(_, _)
oTraverse(index, out) ==
    LET r == Objectwise_moveNext(index, oFilter)
    IN  IF ~r.ret THEN out
        ELSE oTraverse(r.index, Append(out, Pair(Objectwise_getCurrentIndex(r.index),
                                                 Objectwise_getCurrent(r.index))))

\* the full traversal by a cursor as its constructor leaves it
mFresh == mTraverse(0, Undefined, <<>>)
uFresh == uTraverse(0, <<>>, {}, <<>>)
zFresh == zTraverse(Null, -1, Undefined, [i \in 1..Len(zItems) |-> Null], <<>>)
fFresh == fTraverse(Null, -1, <<>>)
oFresh == oTraverse(-1, <<>>)

\* the last moveNext() ended the traversal
uExhausted == uLast.op = "moveNext" /\ ~uLast.ret
zExhausted == zLast.op = "moveNext" /\ zLast.ret = "false"
fExhausted == fLast.op = "moveNext" /\ ~fLast.ret

\* C19: whatever was traversed before a reset(), the elements yielded since are the
\* beginning of what a fresh cursor yields, and all of it once moveNext() has returned
\* false; and reset() leaves the cursor as its constructor does, wherever it stood, so
\* that a second reset() changes nothing.  For Mapped, Uniquely, Zipped, Flattened and
\* Objectwise cursors over an unchanging source.
C19_ResetRestoresTheTraversal ==
    /\ IsPrefix(mOut, mFresh) /\ (mExhausted => mOut = mFresh)
    /\ IsPrefix(uOut, uFresh) /\ (uExhausted => uOut = uFresh)
    /\ IsPrefix(zOut, zFresh) /\ (zExhausted => zOut = zFresh)
    /\ IsPrefix(fOut, fFresh) /\ (fExhausted => fOut = fFresh)
    /\ oFiltered => (IsPrefix(oOut, oFresh) /\ (oExhausted => oOut = oFresh))
    /\ mLast.op = "reset" => (mEnumerator = 0 /\ mCurrent = Undefined)
    /\ uLast.op = "reset" => (uEnumerator = 0 /\ uKeysHash = {} /\ uObjectsHash = <<>>)
    /\ zLast.op = "reset" =>
           /\ zEnumerator = Null /\ zIndex = -1 /\ zCurrent = Undefined
           /\ \A i \in 1..Len(zItemsEnumerators) : zItemsEnumerators[i] = Null
    /\ fLast.op = "reset" => (fMover = Null /\ fIndex = -1)
    /\ oLast.op = "reset" => oIndex = -1

\* a Flattened cursor, reset after it had yielded, has been traversed to its end again
C19_Witness ==
    /\ fRestarted
    /\ fExhausted
    /\ Len(fOut) >= 3
    /\ fOut = fFresh

----------------------------------------------------------------------------
(* A claim about UniquelyEnumerator.reset(), checked under SpecUniq.       *)

\* C20: reset() of a Uniquely cursor empties the list of object keys and the map of
\* primitive keys; after it the elements yielded before are yielded again, the traversal
\* being that of a fresh cursor.
C20_UniquelyResetEmptiesStores ==
    /\ uLast.op = "reset" => (uKeysHash = {} /\ uObjectsHash = <<>>)
    /\ uRestarted =>
           /\ IsPrefix(uOut, uFresh)
           /\ uExhausted => uOut = uFresh
           /\ uLast.op = "moveNext" /\ uLast.ret /\ Len(uOut) = 1 =>
                  uOut[1] = uFresh[1]

\* after a reset that followed the yield of an object and of a primitive, both have
\* been yielded again
C20_Witness ==
    /\ uRestarted
    /\ uExhausted
    /\ Len(uOut) >= 2
    /\ \E j, k \in 1..Len(uOut) :
          InstanceOfObject(uOut[j].item) /\ ~InstanceOfObject(uOut[k].item)

----------------------------------------------------------------------------
(* reset() and the upstream cursor                                         *)

----------------------------------------------------------------------------
(* Two cursors over one link, checked under SpecTwins.                     *)

\* what the first cursor of the class has yielded since its last reset(), whether
\* its last moveNext() ended the traversal, and what a cursor alone yields
tFirstOut ==
    CASE tKind = "mapped" -> mOut
      [] tKind = "uniquely" -> uOut
      [] tKind = "zipped" -> zOut
      [] tKind = "flattened" -> fOut
      [] OTHER -> <<>>

tFirstExhausted ==
    CASE tKind = "mapped" -> mExhausted
      [] tKind = "uniquely" -> uExhausted
      [] tKind = "zipped" -> zExhausted
      [] tKind = "flattened" -> fExhausted
      [] OTHER -> FALSE

tAlone ==
    CASE tKind = "mapped" -> mFresh
      [] tKind = "uniquely" -> uFresh
      [] tKind = "zipped" -> zFresh
      [] tKind = "flattened" -> fFresh
      [] OTHER -> <<>>

tExhausted == tLast.op = "moveNext" /\ tLast.ret = "false"

\* C22: two cursors obtained independently over the same link of a Mapped,
\* Uniquely, Zipped or Flattened chain, advanced and reset in any interleaving,
\* each yield the beginning of what a cursor alone yields and all of it once
\* their moveNext() has returned false; two complete traversals are equal.
C22_CursorsAreIndependent ==
    /\ IsPrefix(tFirstOut, tAlone)
    /\ IsPrefix(tOut, tAlone)
    /\ tFirstExhausted => tFirstOut = tAlone
    /\ tExhausted => tOut = tAlone
    /\ (tFirstExhausted /\ tExhausted) => tFirstOut = tOut

\* both cursors have completed a traversal of two elements or more, the second
\* one having moved on while the first stood between two elements
C22_Witness ==
    /\ tMixed
    /\ tFirstExhausted
    /\ tExhausted
    /\ Len(tOut) >= 2

----------------------------------------------------------------------------
(* The cache of a Sorted cursor, checked under SpecSort.                   *)

\* C23: for one Sorted cursor the previous link is traversed and the sort is run
\* at most once, by the first request for the items; every later request, those
\* after reset() included, returns the sequence the first one returned, and the
\* elements yielded since the last reset() are the beginning of that sequence.
C23_SortedOnceAndCached ==
    /\ sPulls <= 1
    /\ sSorts <= 1
    /\ sItems = Null <=> sPulls = 0
    /\ sItems = Null <=> sSorts = 0
    /\ sItems = sFirst
    /\ sItems # Null => IsPrefix(sOut, sFirst.items)

\* a Sorted cursor of two elements or more, reset after it had yielded, yields again
C23_Witness ==
    /\ sRestarted
    /\ sLast.op = "moveNext"
    /\ sLast.ret
    /\ sSorts = 1
    /\ Len(sFirst.items) >= 2

----------------------------------------------------------------------------
(* getCurrent() before the first element, checked under SpecCursors.       *)

\* what getCurrent() returns in the present state of each cursor
mGetCurrent == MappedEnumerator_getCurrent(mEnumerator, mCurrent).ret
zGetCurrent == ZippedEnumerator_getCurrent(zCurrent)
fGetCurrent == FlattenedEnumerator_getCurrent(fMover)
oGetCurrent == Objectwise_getCurrent(oIndex)

\* no moveNext() has returned true since the cursor was created or last reset
mBeforeFirst == mLast.op # "idle" /\ mOut = <<>>
zBeforeFirst == zPhase = "ready" /\ zOut = <<>>
fBeforeFirst == fLast.op # "idle" /\ fOut = <<>>
oBeforeFirst == oPhase = "ready" /\ oOut = <<>>

\* getCurrent() before the first element of a Mapped, Zipped or Flattened cursor;
\* a Flattened cursor that holds a mover hands the question to the mover, so it
\* is taken where it answers itself: as long as it holds none
BeforeFirstUndefinedButObjectwise ==
    /\ mBeforeFirst => mGetCurrent = Undefined
    /\ zBeforeFirst => zGetCurrent = Undefined
    /\ (fBeforeFirst /\ fMover = Null) => fGetCurrent = Undefined

\* C24: getCurrent() of a Mapped, Zipped, Flattened or Objectwise cursor returns
\* undefined in every state in which no moveNext() has returned true since the
\* cursor was created or last reset.
C24_UndefinedBeforeFirstElement ==
    /\ BeforeFirstUndefinedButObjectwise
    /\ oBeforeFirst => oGetCurrent = Undefined

----------------------------------------------------------------------------
(* A zip argument that is neither array nor enumerable, under SpecZip.     *)

\* with such an argument every primary element makes moveNext() raise, after line
\* 45 has counted it: the traversal has raised once this.index has left -1
zTraversalRaised == zHasUnsupported /\ zIndex >= 0

\* C25: whatever the primary, a traversal of a Zipped cursor that was given a
\* secondary which is neither array nor enumerable raises the unsupported-argument
\* error: no element is yielded, and moveNext() does not return false in a
\* traversal that has not raised
C25_DefectAlwaysSurfaced ==
    zHasUnsupported =>
        /\ zOut = <<>>
        /\ (zLast.op = "moveNext" /\ zLast.ret = "false") => zTraversalRaised

----------------------------------------------------------------------------
(* The source data, checked under SpecCursors.                             *)

\* the object an Objectwise cursor traverses is the one it was given; undefined
\* is replaced by an object of the constructor's own
oTraversesItsArgument ==
    oPhase = "ready" =>
        oItems = IF oArgument = Undefined THEN PlainObject(<<>>) ELSE oArgument

\* C26: no operation of a Sorted, Zipped, Uniquely, Mapped, Flattened or
\* Objectwise cursor modifies the source sequence or mapping, a secondary
\* collection or an element: every step leaves them, the properties of the
\* elements included, as they were.
C26_SourcesAreNotModified ==
    [][/\ UNCHANGED <<sPrevious, zPrevious, zItems, uPrevious, mPrevious, fPrevious,
                      oArgument>>
       /\ oTraversesItsArgument']_vars

\* a sort of two elements or more has been made and traversed to its end
C26_Witness ==
    /\ sSorts = 1
    /\ Len(sPrevious) >= 2
    /\ sLast.op = "moveNext"
    /\ ~sLast.ret

----------------------------------------------------------------------------
(* The default comparator, checked under SpecCompare.                      *)

\* the values of the two items last compared
dValueA == SortWrapper_valueOf(dLast.a)
dValueB == SortWrapper_valueOf(dLast.b)

\* C27: with the default comparator every pair of items the sort compares, in
\* the wrapped form in which the comparator gets them, compares as 0 when the
\* two values are equal, as 1 when a > b and as -1 when a < b, and
\* compare(a, b) = -compare(b, a).
C27_DefaultCompareIsAntisymmetric ==
    dLast.op = "compare" =>
        /\ StrictEquals(dValueA, dValueB) => dLast.ab = 0
        /\ PrimitiveGreater(dValueA, dValueB) => dLast.ab = 1
        /\ PrimitiveGreater(dValueB, dValueA) => dLast.ab = -1
        /\ dLast.ab = -dLast.ba

----------------------------------------------------------------------------
(* The version of a ReactiveObject, checked under SpecReactive.            *)

\* what getVersion() returns in the present state
rGetVersion == ReactiveObject_getVersion(rStorage, rVersion, rNestedVersions).ret

\* the last assignment gave the property a value not identical to the one it had
rAssignedAnother == StrictNotEquals(rLast.value, rLast.oldValue)

\* the last assignment neither put in nor replaced an instance of VersionableMixin
rAssignedPlain ==
    /\ ~InstanceOfVersionableMixin(rLast.value)
    /\ ~InstanceOfVersionableMixin(rLast.oldValue)

----------------------------------------------------------------------------
(* C29: logger.stack passes a pair to the ILogger once                     *)

\* the pairs reported so far
lReportedPairs == {lReported[i] : i \in DOMAIN lReported}

\* C29: after any sequence of logger.stack calls every (message, call stack)
\* pair reported so far has been passed to the ILogger exactly once, and the
\* last call has come back
C29_EachPairLoggedExactlyOnce ==
    (lLast.op = "stack") =>
        /\ lLast.outcome # "throw"
        /\ \A pair \in lReportedPairs : lLogged[pair] = 1

----------------------------------------------------------------------------
(* C30: what isEqual answers on primitives, arrays and object literals     *)

\* the keys of an object literal
eKeySet(obj) == {obj.props[k].key : k \in 1..Len(obj.props)}

\* a === b, or two arrays of one length with equal items, or two object literals
\* with one set of keys and equal values
eEqualAsDescribed(a, b) ==
    \/ EqualStrictEquals(a, b)
    \/ /\ a.t = "array" /\ b.t = "array"
       /\ Len(a.items) = Len(b.items)
       /\ \A k \in 1..Len(a.items) :
              isEqual(EqualArrayGet(a, k - 1), EqualArrayGet(b, k - 1)) = "true"
    \/ /\ a.t = "object" /\ b.t = "object"
       /\ eKeySet(a) = eKeySet(b)
       /\ \A key \in eKeySet(a) :
              isEqual(EqualObjectGet(a, key), EqualObjectGet(b, key)) = "true"

\* C30: on values built from primitives, arrays and object literals isEqual(a, b)
\* is true exactly when a === b, or both are arrays of one length with pairwise
\* equal items, or both are objects with one set of keys and pairwise equal
\* values; an array never equals a non-array, and isEqual(b, a) answers the same
C30_IsEqualIsStructuralAndSymmetric ==
    (eLast.op = "isEqual") =>
        /\ eOut \in {"true", "false"}
        /\ (eOut = "true") = eEqualAsDescribed(eObj1, eObj2)
        /\ ((eObj1.t = "array") # (eObj2.t = "array")) => eOut = "false"
        /\ eBack = eOut

----------------------------------------------------------------------------
(* The end of a traversal, checked under SpecCursors.                      *)

RECURSIVE FlatAtoms(_)
\* the elements of a sequence that are no containers, at any depth
FlatAtoms(items) ==
    IF items = <<>> THEN 0
    ELSE (IF IsContainer(items[1]) THEN FlatAtoms(items[1].items) ELSE 1)
            + FlatAtoms(SubSeq(items, 2, Len(items)))

\* the upstream cursor stands within the upstream's elements, no call advances it
\* more often than there are elements, and no more elements are yielded than
\* the upstream has
TraversalIsBounded ==
    /\ uLast.op # "idle" =>
          /\ uEnumerator <= Len(uPrevious)
          /\ uReads <= Len(uPrevious) + 1
          /\ Len(uOut) <= uEnumerator
    /\ mLast.op # "idle" =>
          /\ mEnumerator <= Len(mPrevious)
          /\ Len(mOut) <= mEnumerator
    /\ (zPhase = "ready" /\ zEnumerator # Null) =>
          /\ zEnumerator.pos <= Len(zPrevious)
          /\ Len(zOut) <= zEnumerator.pos
    /\ oPhase = "ready" =>
          /\ oIndex + 1 <= Len(oKeys)
          /\ Len(oOut) <= oIndex + 1
    /\ fLast.op # "idle" =>
          Len(fOut) <= FlatAtoms([p \in 1..Len(fPrevious) |-> fPrevious[p].item])

\* a moveNext() that follows one that returned false returns false
FalseStaysFalse ==
    /\ (uLast.op = "moveNext" /\ ~uLast.ret /\ uLast'.op = "moveNext") => ~uLast'.ret
    /\ (mLast.op = "moveNext" /\ ~mLast.ret /\ mLast'.op = "moveNext") => ~mLast'.ret
    /\ (fLast.op = "moveNext" /\ ~fLast.ret /\ fLast'.op = "moveNext") => ~fLast'.ret
    /\ (zLast.op = "moveNext" /\ zLast.ret = "false" /\ zLast'.op = "moveNext")
          => zLast'.ret = "false"
    /\ (oLast.op = "moveNext" /\ ~oLast.ret /\ oLast'.op = "moveNext") => ~oLast'.ret
    /\ (oLast.op = "moveNext" /\ ~oLast.ret /\ oLast'.op # "reset")
          => (1 + oIndex' >= Len(oKeys'))

\* the upstream elements the cursor has not passed yet
uRemaining == Len(uPrevious) - uEnumerator
mRemaining == Len(mPrevious) - mEnumerator
zRemaining == Len(zPrevious) - (IF zEnumerator = Null THEN 0 ELSE zEnumerator.pos)
oRemaining == Len(oKeys) - (oIndex + 1)
fRemaining == FlatAtoms([p \in 1..Len(fPrevious) |-> fPrevious[p].item]) - Len(fOut)

\* a moveNext() that does not return false passes at least one upstream element,
\* and with none left moveNext() returns false
TraversalAdvances ==
    /\ uLast'.op = "moveNext" =>
          IF uLast'.ret THEN uRemaining' < uRemaining ELSE uRemaining' = 0
    /\ Len(mOut') > Len(mOut) => mRemaining' < mRemaining
    /\ (mLast'.op = "moveNext" /\ ~mLast'.ret) => mRemaining' = 0
    /\ zLast'.op = "moveNext" =>
          IF zLast'.ret = "false" THEN zRemaining' = 0 ELSE zRemaining' < zRemaining
    /\ (oLast'.op = "moveNext" /\ oPhase = "ready") =>
          IF oLast'.ret THEN oRemaining' < oRemaining ELSE oRemaining' = 0
    /\ fLast'.op = "moveNext" =>
          IF fLast'.ret THEN fRemaining' < fRemaining ELSE fOut' = fOut

\* C33: every traversal of a finite source by a Uniquely, Objectwise, Mapped,
\* Zipped or Flattened cursor ends: the upstream elements not yet passed are a
\* number that is never negative and that every moveNext() which does not return
\* false makes smaller, so that moveNext() returns false after no more upstream
\* advances than the upstream has elements; having returned false it returns
\* false on every further call until reset().
C33_TraversalsTerminate ==
    /\ []TraversalIsBounded
    /\ [][TraversalAdvances /\ FalseStaysFalse]_vars

\* a Uniquely cursor has skipped a duplicate and then come to the end
C33_Witness ==
    /\ uLast.op = "moveNext"
    /\ ~uLast.ret
    /\ Len(uPrevious) >= 3
    /\ Len(uOut) < Len(uPrevious)
    /\ Len(uOut) >= 1

----------------------------------------------------------------------------
(* The current entry of a filtered Objectwise cursor, under SpecObj.       *)

\* a filter is installed and has been the same since the traversal began
oTraversalFiltered == oPhase = "ready" /\ oFilter # "none" /\ oFiltered

\* getCurrentIndex() in the present state
oGetCurrentIndex == Objectwise_getCurrentIndex(oIndex)

\* C34: at every point of an Objectwise traversal with a filter installed, also
\* after moveNext() has returned false, getCurrent() is undefined or an entry the
\* filter accepts: a rejected entry is never the current element or index.
C34_CurrentIsNeverARejectedEntry ==
    oTraversalFiltered =>
        \/ oIndex < 0
        \/ filter(oFilter, oGetCurrent, oGetCurrentIndex)

----------------------------------------------------------------------------
(* A moveNext() that returns false, under SpecCursors.                     *)

\* getCurrentIndex() of the Zipped cursor in the present state
zGetCurrentIndex == zIndex

\* the step is a moveNext() of the Zipped, of the Mapped cursor, that returned false
zReturnedFalse == zLast'.op = "moveNext" /\ zLast'.ret = "false"
mReturnedFalse == mLast'.op = "moveNext" /\ ~mLast'.ret

\* the false moveNext() left what the cursors show as it was, called no callback
\* and moved no secondary cursor: the one upstream moveNext() is all it did
FalseMoveNextChangesNothing ==
    /\ zReturnedFalse =>
          /\ zGetCurrent' = zGetCurrent
          /\ zGetCurrentIndex' = zGetCurrentIndex
          /\ zItemsEnumerators' = zItemsEnumerators
          /\ zReads' = 1
    /\ mReturnedFalse =>
          /\ mGetCurrent' = mGetCurrent
          /\ mCalls' = mCalls
          /\ mReads' = 1

\* what the Zipped cursor shows is the last tuple yielded and its position, or
\* undefined and -1 when none was
zShowsLastYielded ==
    IF zOut = <<>> THEN zGetCurrent = Undefined /\ zGetCurrentIndex = -1
    ELSE /\ zGetCurrent = zOut[Len(zOut)].item
         /\ zGetCurrentIndex = zOut[Len(zOut)].index

rChangedSinceSeen ==
    {key \in DOMAIN rStorage :
        /\ InstanceOfVersionableMixin(rStorage[key])
        /\ InstanceOfVersionableMixin(rSeen[key])
        /\ rStorage[key].ref = rSeen[key].ref
        /\ rStorage[key].version # rSeen[key].version}

\* the properties that have come to hold an instance they did not hold then
rReplacedSinceSeen ==
    {key \in DOMAIN rStorage :
        /\ InstanceOfVersionableMixin(rStorage[key])
        /\ ~ (InstanceOfVersionableMixin(rSeen[key]) /\ rStorage[key].ref = rSeen[key].ref)}

\* C36: getVersion() raises the object's own version only for the properties whose
\* VersionableMixin instance has changed its version since the object was created
\* or since the previous getVersion(), by exactly 1 for each of them (a property
\* that has come to hold another instance may or may not count), and a
\* getVersion() straight after a getVersion() returns the same number
C36_GetVersionCountsChangedInstances ==
    [][rLast'.op = "getVersion" =>
         /\ rVersion' - rVersion >= Cardinality(rChangedSinceSeen)
         /\ rVersion' - rVersion <= Cardinality(rChangedSinceSeen) + Cardinality(rReplacedSinceSeen)
         /\ rLast.op = "getVersion" => rLast'.ret = rLast.ret]_vars


\* ---------------------------------------------------------------------------
\* Serialization, checked under SpecSerial
\* ---------------------------------------------------------------------------

\* the instance fromJSON() has just returned, and what toJSON() would return for it
entRebuilt == entInstances[entLast.j]

entRebuiltAgain ==
    SerializableMixin_toJSON(entProto, isProtoSupported, entRebuilt, entScopes[entLast.j],
                             instanceCounter).ret

\* C31: Class.fromJSON(x.toJSON()) is an instance other than x, of the same class,
\* built from the signature's state.$options (a DateTime has the time kept there)
\* and marked as unserialized; serialized again it gives the same module and an
\* equal state.$options under another id
C31_FromJSONRebuildsTheInstance ==
    entLast.op = "fromJSON" =>
        /\ entLast.j # entLast.i
        /\ entLast.j = Len(entInstances)
        /\ entRebuilt.unserialized
        /\ ~Truthy(entRebuilt.instanceNumber)
        /\ entProto.kind = "DateTime" => entRebuilt.time = entLast.data.state.options
        /\ entProto.kind = "entity" =>
              \A key \in OptionKeys :
                  Instance_get(entProto, entRebuilt, entLast.data.state.options,
                               optionPrefix \o key).value
                    = Instance_get(entProto, entRebuilt, entScopes[entLast.j],
                                   optionPrefix \o key).value
        /\ entRebuiltAgain.t = "signature"
        /\ entRebuiltAgain.module = entLast.data.module
        /\ entRebuiltAgain.state.options = entLast.data.state.options
        /\ entRebuiltAgain.id # entLast.data.id

\* an instance built with an option of a mergeable property and one kept in
\* _options has been serialized and rebuilt
C31_Witness ==
    /\ entLast.op = "fromJSON"
    /\ entProto.kind = "entity"
    /\ DOMAIN entLast.data.state.options.props = {"a", "b", "c"}
    /\ entLast.data.state.options.props["b"] = Hash([x |-> Num(2)])


\* the instances that have been given an id
entNumbered == {i \in 1..Len(entInstances) : Truthy(entInstances[i].instanceNumber)}

\* distinct instances have distinct ids, all of them positive integers, and a
\* toJSON() that numbers an instance gives it an id above every id given before
entIdsAreDistinctAndGrow ==
    /\ \A i, j \in entNumbered :
          i # j => entInstances[i].instanceNumber # entInstances[j].instanceNumber
    /\ \A i \in entNumbered : entInstances[i].instanceNumber.n \in 1..instanceCounter
    /\ (entLast.op = "toJSON" /\ entLast.ret.t = "signature") =>
          /\ entLast.ret.id = entInstances[entLast.i].instanceNumber
          /\ entLast.numbered => instanceCounter = entLast.counter
          /\ ~entLast.numbered =>
                /\ instanceCounter = entLast.counter + 1
                /\ \A j \in entNumbered \ {entLast.i} :
                      entInstances[j].instanceNumber.n < entLast.ret.id.n

\* no step changes the id an instance has
entIdsAreKept ==
    \A i \in entNumbered : entInstances'[i].instanceNumber = entInstances[i].instanceNumber

\* C37: every toJSON() of one instance returns the same id, distinct instances
\* have distinct ids, and the ids are positive integers that grow strictly in the
\* order in which the instances were first serialized
C37_InstanceIdsAreStableAndGrow ==
    /\ []entIdsAreDistinctAndGrow
    /\ [][entIdsAreKept]_vars

\* an instance has been serialized a second time after another instance was
\* serialized for the first time
C37_Witness ==
    /\ entLast.op = "toJSON"
    /\ entLast.numbered
    /\ entLast.ret.t = "signature"
    /\ \E j \in entNumbered : entInstances[j].instanceNumber.n > entLast.ret.id.n

\* toJSON() has succeeded
entSerialized == entLast.op = "toJSON" /\ entLast.ret.t = "signature"

\* toJSON() has raised, and left the instance and the counter as they were
entRefused ==
    /\ entLast.op = "toJSON"
    /\ entLast.ret = [t |-> "ReferenceError"]
    /\ instanceCounter = entLast.counter
    /\ Truthy(entInstances[entLast.i].instanceNumber) = entLast.numbered

\* C38 as stated: toJSON() returns a signature only if _moduleName is an own
\* property of the instance's direct prototype, and otherwise raises a
\* ReferenceError without numbering the instance or moving the counter
C38_ToJSONNeedsOwnModuleName ==
    entLast.op = "toJSON" =>
        IF "_moduleName" \in DOMAIN entProto.own THEN entSerialized \/ entRefused ELSE entRefused

\* C38: where {}.__proto__ is an object, toJSON() returns a signature only if
\* _moduleName is an own property of the instance's direct prototype; where it is
\* not, only if the instance has a _moduleName at all, own or inherited. Otherwise
\* toJSON() raises a ReferenceError without numbering the instance or moving the
\* counter
C38_ToJSONNeedsModuleNameWhereProtoShows ==
    entLast.op = "toJSON" =>
        IF \/ isProtoSupported /\ "_moduleName" \in DOMAIN entProto.own
           \/ ~isProtoSupported /\ ProtoHas(entProto, "_moduleName")
        THEN entSerialized \/ entRefused
        ELSE entRefused

\* toJSON() has raised for a class that inherits its _moduleName, where
\* {}.__proto__ is an object
C38_Witness ==
    /\ entRefused
    /\ isProtoSupported
    /\ ProtoHas(entProto, "_moduleName")
    /\ "_moduleName" \notin DOMAIN entProto.own


\* ---------------------------------------------------------------------------
\* Options as properties, checked under SpecOptions
\* ---------------------------------------------------------------------------

\* the prototype's default of an option, and whether it is marked as mergeable
entDefault(key) == ProtoGet(entProto, optionPrefix \o key)

entDefaultIsMergeable(key) ==
    entDefault(key).t = "hash" /\ "mergeable" \in DOMAIN entDefault(key)

\* what reading _$key is to return for an instance built from options
entExpected(options, key) ==
    IF options.t = "hash" /\ key \in DOMAIN options.props
    THEN IF ~ProtoHas(entProto, optionPrefix \o key) THEN Undefined
         ELSE IF ~entDefaultIsMergeable(key) THEN options.props[key]
         ELSE IF options.props[key].t # "hash" THEN Hash(entDefault(key).props)
         ELSE Hash([n \in DOMAIN entDefault(key).props \cup DOMAIN options.props[key].props |->
                      IF n \in DOMAIN options.props[key].props
                      THEN options.props[key].props[n]
                      ELSE entDefault(key).props[n]])
    ELSE entDefault(key)

\* C32: for every key k of the options passed to the constructor, reading _$k
\* returns options[k] if _$k is declared, own or inherited (merged over the
\* prototype's default when that is marked as mergeable), and no property is
\* created for k if it is not; a declared option absent from options reads as the
\* prototype's default. (The caller has left the options as they were.)
C32_OptionsBecomeDeclaredProperties ==
    /\ \A i \in 1..Len(entInstances), key \in OptionKeys :
          ~ProtoHas(entProto, optionPrefix \o key) =>
              /\ key \notin entInstances[i].lazy
              /\ optionPrefix \o key \notin DOMAIN entInstances[i].own
    /\ (entLast.op = "read" /\ entScopes[entLast.i] = entGiven[entLast.i]) =>
          entLast.value = entExpected(entGiven[entLast.i], entLast.key)

\* an inherited mergeable option has been read as the default with the passed
\* properties over it
C32_Witness ==
    /\ entLast.op = "read"
    /\ entScopes[entLast.i] = entGiven[entLast.i]
    /\ optionPrefix \o entLast.key \in DOMAIN entProto.parent
    /\ HashGet(entGiven[entLast.i], entLast.key) = Hash([x |-> Num(2)])
    /\ entLast.value = Hash([x |-> Num(2), y |-> Num(1)])

\* C40: the value an option property yields is the value options[k] had when the
\* constructor ran, whatever the caller has done to the options object since,
\* before or after the first read
C40_ReadsTheOptionsOfConstructionTime ==
    entLast.op = "read" => entLast.value = entExpected(entGiven[entLast.i], entLast.key)


\* ---------------------------------------------------------------------------
\* ManyToManyMixin.destroy(), checked under SpecRelations
\* ---------------------------------------------------------------------------

\* the entities destroy() has been called on in the course of the last destroy()
mtmDestroyed == {mtmLast.calls[i] : i \in 1..Len(mtmLast.calls)}

\* the entities that were children of the receiver when the last destroy() began
mtmChildren == {mtmLast.children[i] : i \in 1..Len(mtmLast.children)} \cap Entities

\* C39: destroy() returns for every graph of relationships, those with entities
\* that are children of each other included; it has called destroy() on every
\* entity that was a child of the receiver in its mediator when the call began,
\* has removed the receiver's relationships from that mediator, and leaves the
\* receiver without a mediator
C39_DestroyEndsAndReleases ==
    mtmLast.op = "destroy" =>
        /\ ~mtmLast.overflow
        /\ mtmChildren \subseteq mtmDestroyed
        /\ \A r \in mtmLast.left : r[1] # mtmLast.entity
        /\ mtmMediator[mtmLast.entity] = NoMediator

\* an entity has been destroyed whose child had it as a child: its destroy() was
\* entered again from the child's
C39_Witness ==
    /\ mtmLast.op = "destroy"
    /\ mtmLast.entity \in mtmDestroyed
    /\ \E child \in mtmChildren : child # mtmLast.entity
    /\ PlainChild \notin mtmDestroyed

====
